---- MODULE Spec2Model ----
(***************************************************************************)
(* A model of cleancopywriter's html document pipeline:                    *)
(*   - apply_transformers, the type-dispatched post-order AST rewriter     *)
(*     (documents.py), computed node by node as the code computes it, with *)
(*     a log of every transformer invocation;                              *)
(*   - the cleancopy templatifier (templatifiers/clc.py) and the docnote   *)
(*     module templatifier (templatifiers/docnotes.py), as far as the      *)
(*     document collection depends on them;                                *)
(*   - HtmlDocumentCollection (documents.py): preprocess, add, get,        *)
(*     membership, iteration and len.                                      *)
(*                                                                         *)
(* Python values are records with a "kind" field naming their class.       *)
(* A raised exception is a record whose kind is the exception class; every *)
(* operator that calls another one propagates it as the code would.        *)
(***************************************************************************)
EXTENDS Integers, Sequences, FiniteSets, TLC

VARIABLES
    transformers,   \* HtmlDocumentCollection.transformers (the chain)
    documents,      \* HtmlDocumentCollection._documents, in insertion order
    op,             \* the last operation performed, with its arguments
    outcome,        \* what it returned or raised
    calls           \* the calls it made to transformers, plugins and the resolver

vars == <<transformers, documents, op, outcome, calls>>

----------------------------------------------------------------------------
(* Bounds of the model. *)

\* longest transformer chain
MaxChain == 2
\* most body items of a root block
MaxBody == 2
\* number of distinct document identifiers
MaxIds == 2
\* the longest list of plugins registered under one key
MaxPlugins == 3
\* the longest list of tag wrappers around one node
MaxWrappers == 3
\* the most entries the metadata map of one info record holds
MaxMeta == 3
\* the depths of the headings made run from -MaxDepth to MaxDepth
MaxDepth == 8
\* the most members a summary's frozenset holds
MaxMembers == 3

----------------------------------------------------------------------------
(* Python values. *)

None == [kind |-> "NoneType"]
Str(s) == [kind |-> "str", value |-> s]
IntVal(i) == [kind |-> "int", n |-> i]

TypeError(msg) == [kind |-> "TypeError", msg |-> msg]
ValueError(msg) == [kind |-> "ValueError", msg |-> msg]
ExceptionKinds == {"TypeError", "ValueError", "KeyError"}
IsException(v) == v.kind \in ExceptionKinds

isinstance(v, kinds) == v.kind \in kinds

(* cleancopy.ast node classes, as the pipeline constructs them. *)
ClcDocument(title, info, root) ==
    [kind |-> "Document", title |-> title, info |-> info, root |-> root]
RichtextBlockNode(title, info, depth, content) ==
    [kind |-> "RichtextBlockNode", title |-> title, info |-> info,
     depth |-> depth, content |-> content]
EmbeddingBlockNode(title, info, depth, content) ==
    [kind |-> "EmbeddingBlockNode", title |-> title, info |-> info,
     depth |-> depth, content |-> content]
Paragraph(content) == [kind |-> "Paragraph", content |-> content]
List_(type_, content) == [kind |-> "List_", type_ |-> type_, content |-> content]
ListItem(index, content) ==
    [kind |-> "ListItem", index |-> index, content |-> content]
RichtextInlineNode(info, content) ==
    [kind |-> "RichtextInlineNode", info |-> info, content |-> content]
Annotation(content) == [kind |-> "Annotation", content |-> content]

BlockNode == {"RichtextBlockNode", "EmbeddingBlockNode"}

(* cleancopy.ast data types and info records.  A field that is not set is  *)
(* None; metadata is the dict of declared pairs, in insertion order.       *)
DataType(cls, value) == [kind |-> cls, value |-> value]
Enum(cls, name) == [kind |-> cls, name |-> name]
MetaItem(key, value) == [key |-> key, value |-> value]

BlockNodeInfo(embed, target, formatting, metadata) ==
    [kind |-> "BlockNodeInfo", embed |-> embed, target |-> target,
     formatting |-> formatting, fallback |-> None, semantic_modifiers |-> None,
     style_modifiers |-> None, metadata |-> metadata]
InlineNodeInfo(target, formatting, metadata) ==
    [kind |-> "InlineNodeInfo", target |-> target, formatting |-> formatting,
     semantic_modifiers |-> None, style_modifiers |-> None, sugared |-> None,
     metadata |-> metadata]

----------------------------------------------------------------------------
(* Transformers.  A ClcTreeTransformer is a callable (node, context) ->    *)
(* node supplied by the caller; the pool below is the set of callables the *)
(* model draws chains from.  Each is a total function of its arguments.    *)

Upper(s) == IF s = "a" THEN "A" ELSE s

\* rewrites the casing of the literal text of an inline node
T_upper(node) ==
    IF node.kind = "RichtextInlineNode"
    THEN [node EXCEPT !.content =
            [k \in DOMAIN node.content |->
                IF node.content[k].kind = "str"
                THEN Str(Upper(node.content[k].value))
                ELSE node.content[k]]]
    ELSE node

\* turns the literal text "a" of an inline node into a reference into the
\* namespace the context names (nothing without a context)
T_refs(node, context) ==
    IF node.kind = "RichtextInlineNode" /\ context # None
    THEN [node EXCEPT !.content =
            [k \in DOMAIN node.content |->
                IF node.content[k] = Str("a")
                THEN RichtextInlineNode(None, <<Str(context.value), Str("a")>>)
                ELSE node.content[k]]]
    ELSE node

\* replaces an inline node by an annotation: another variant
T_inl2ann(node) ==
    IF node.kind = "RichtextInlineNode" THEN Annotation(Str("x")) ELSE node

\* replaces an annotation by an inline node holding its text
T_ann2inl(node) ==
    IF node.kind = "Annotation"
    THEN RichtextInlineNode(None, <<node.content>>)
    ELSE node

\* returns a paragraph of the right variant whose own child is a list item
T_graft(node) ==
    IF node.kind = "Paragraph"
    THEN Paragraph(<<ListItem(None, <<>>)>>)
    ELSE node

\* replaces the document by its root block
T_unroot(node) ==
    IF node.kind = "Document" THEN node.root ELSE node

TransformerPool ==
    {"ident", "upper", "refs", "inl2ann", "ann2inl", "graft", "unroot"}

\* transformer(new_node, context=context)
CallTransformer(transformer, node, context) ==
    CASE transformer = "ident" -> node
      [] transformer = "upper" -> T_upper(node)
      [] transformer = "refs" -> T_refs(node, context)
      [] transformer = "inl2ann" -> T_inl2ann(node)
      [] transformer = "ann2inl" -> T_ann2inl(node)
      [] transformer = "graft" -> T_graft(node)
      [] transformer = "unroot" -> T_unroot(node)

----------------------------------------------------------------------------
(* The transform pipeline (documents.py).                                  *)
(*                                                                         *)
(* Every operator returns [val, calls, built]: the value returned (or the  *)
(* exception raised), the transformer invocations made, in order, and the  *)
(* number of nodes the pipeline itself constructed.  path is the position  *)
(* of the node in the original tree: 0 is a title, k >= 1 the k-th item of *)
(* root/content (a Document's root is item 1).                             *)

Result(val, log, built) == [val |-> val, calls |-> log, built |-> built]
Raised(r) == IsException(r.val)

XformCall(idx, transformer, path, orig, arg, context, out) ==
    [call |-> "transformer", idx |-> idx, transformer |-> transformer,
     path |-> path, orig |-> orig, arg |-> arg, context |-> context,
     out |-> out]

\* _xform_chain walking the chain from its last transformer to its first
RECURSIVE _xform_chain_reversed(_, _, _, _, _, _)
_xform_chain_reversed(new_node, chain, context, path, orig, i) ==
    IF i > Len(chain) THEN Result(new_node, <<>>, 0)
    ELSE LET transformer == chain[Len(chain) + 1 - i]
             out == CallTransformer(transformer, new_node, context)
             rest == _xform_chain_reversed(out, chain, context, path, orig, i + 1)
         IN  Result(rest.val,
                    <<XformCall(i, transformer, path, orig, new_node, context, out)>>
                        \o rest.calls,
                    0)

\* for transformer in transformers: new_node = transformer(new_node, context)
RECURSIVE _xform_chain(_, _, _, _, _, _)
_xform_chain(new_node, chain, context, path, orig, i) ==
    IF i > Len(chain) THEN Result(new_node, <<>>, 0)
    ELSE LET out == CallTransformer(chain[i], new_node, context)
             rest == _xform_chain(out, chain, context, path, orig, i + 1)
         IN  Result(rest.val,
                    <<XformCall(i, chain[i], path, orig, new_node, context, out)>>
                        \o rest.calls,
                    0)

RECURSIVE _apply_transformers(_, _, _, _)

\* [_apply_transformers(subnode, ...) for subnode in content], from item k on:
\* items is the list built, val the exception that ended the comprehension
\* (None when it ran to its end)
RECURSIVE _xform_content(_, _, _, _, _)
_xform_content(content, chain, context, path, k) ==
    IF k > Len(content)
    THEN [val |-> None, items |-> <<>>, calls |-> <<>>, built |-> 0]
    ELSE LET r == _apply_transformers(content[k], chain, context, path \o <<k>>)
         IN  IF Raised(r)
             THEN [val |-> r.val, items |-> <<>>, calls |-> r.calls,
                   built |-> r.built]
             ELSE LET rest == _xform_content(content, chain, context, path, k + 1)
                  IN  [val |-> rest.val, items |-> <<r.val>> \o rest.items,
                       calls |-> r.calls \o rest.calls,
                       built |-> r.built + rest.built]

\* _xform_title returning the transformed title without checking its variant
_xform_title_unchecked(node, chain, context, path) ==
    IF node.title = None THEN Result(None, <<>>, 0)
    ELSE _apply_transformers(node.title, chain, context, path \o <<0>>)

\* the title branch shared by the Document and the two block node handlers
_xform_title(node, chain, context, path) ==
    IF node.title = None THEN Result(None, <<>>, 0)
    ELSE LET r == _apply_transformers(node.title, chain, context, path \o <<0>>)
         IN  IF Raised(r) THEN r
             ELSE IF ~(r.val = None \/ isinstance(r.val, {"RichtextInlineNode"}))
             THEN Result(TypeError("Invalid transformation result!"),
                         r.calls, r.built)
             ELSE r

\* all(isinstance(new_subnode, kinds) for new_subnode in new_content)
AllInstances(new_content, kinds) ==
    \A k \in DOMAIN new_content : isinstance(new_content[k], kinds)

\* r, with the calls and constructions of the steps before it put in front
After(before, r) ==
    Result(r.val, before.calls \o r.calls, before.built + r.built)

InvalidResult == TypeError("Invalid transformation result!")

_apply_xform_document(node, chain, context, path) ==
    LET t == _xform_title(node, chain, context, path)
    IN  IF Raised(t) THEN t
        ELSE
        LET r == After(t, _apply_transformers(node.root, chain, context,
                                              path \o <<1>>))
        IN  IF Raised(r) THEN r
            ELSE IF ~isinstance(r.val, {"RichtextBlockNode"})
            THEN Result(InvalidResult, r.calls, r.built)
            ELSE
            LET new_node == ClcDocument(t.val, node.info, r.val)
            IN  After(Result(None, r.calls, r.built + 1),
                      _xform_chain(new_node, chain, context, path, node, 1))

_apply_xform_richtextblocknode(node, chain, context, path) ==
    LET t == _xform_title(node, chain, context, path)
    IN  IF Raised(t) THEN t
        ELSE
        LET c == _xform_content(node.content, chain, context, path, 1)
        IN  IF Raised(c) THEN After(t, c)
            ELSE IF ~AllInstances(c.items, {"Paragraph"} \cup BlockNode)
            THEN After(t, Result(InvalidResult, c.calls, c.built))
            ELSE
            LET new_node ==
                    RichtextBlockNode(t.val, node.info, node.depth, c.items)
            IN  After(After(t, Result(None, c.calls, c.built + 1)),
                      _xform_chain(new_node, chain, context, path, node, 1))

_apply_xform_embeddingblocknode(node, chain, context, path) ==
    LET t == _xform_title(node, chain, context, path)
    IN  IF Raised(t) THEN t
        ELSE
        LET new_node ==
                EmbeddingBlockNode(t.val, node.info, node.depth, node.content)
        IN  After(Result(None, t.calls, t.built + 1),
                  _xform_chain(new_node, chain, context, path, node, 1))

\* _apply_xform_paragraph running the chain on the paragraph before its items
\* are transformed
_apply_xform_paragraph_preorder(node, chain, context, path) ==
    LET t == _xform_chain(Paragraph(node.content), chain, context, path, node, 1)
        c == _xform_content(node.content, chain, context, path, 1)
    IN  IF Raised(c) THEN Result(c.val, t.calls \o c.calls, c.built + 1)
        ELSE IF ~AllInstances(c.items, {"RichtextInlineNode", "List_", "Annotation"})
        THEN Result(InvalidResult, t.calls \o c.calls, c.built + 1)
        ELSE Result(IF t.val.kind = "Paragraph" THEN Paragraph(c.items) ELSE t.val,
                    t.calls \o c.calls, c.built + 1)

_apply_xform_paragraph(node, chain, context, path) ==
    LET c == _xform_content(node.content, chain, context, path, 1)
    IN  IF Raised(c) THEN Result(c.val, c.calls, c.built)
        ELSE IF ~AllInstances(c.items, {"RichtextInlineNode", "List_", "Annotation"})
        THEN Result(InvalidResult, c.calls, c.built)
        ELSE
        LET new_node == Paragraph(c.items)
        IN  After(Result(None, c.calls, c.built + 1),
                  _xform_chain(new_node, chain, context, path, node, 1))

_apply_xform_list(node, chain, context, path) ==
    LET c == _xform_content(node.content, chain, context, path, 1)
    IN  IF Raised(c) THEN Result(c.val, c.calls, c.built)
        ELSE IF ~AllInstances(c.items, {"ListItem"})
        THEN Result(InvalidResult, c.calls, c.built)
        ELSE
        LET new_node == List_(node.type_, c.items)
        IN  After(Result(None, c.calls, c.built + 1),
                  _xform_chain(new_node, chain, context, path, node, 1))

\* _apply_xform_listitem rebuilding the item without its index
_apply_xform_listitem_no_index(node, chain, context, path) ==
    LET c == _xform_content(node.content, chain, context, path, 1)
    IN  IF Raised(c) THEN Result(c.val, c.calls, c.built)
        ELSE IF ~AllInstances(c.items, {"Paragraph"})
        THEN Result(InvalidResult, c.calls, c.built)
        ELSE
        LET new_node == ListItem(None, c.items)
        IN  After(Result(None, c.calls, c.built + 1),
                  _xform_chain(new_node, chain, context, path, node, 1))

_apply_xform_listitem(node, chain, context, path) ==
    LET c == _xform_content(node.content, chain, context, path, 1)
    IN  IF Raised(c) THEN Result(c.val, c.calls, c.built)
        ELSE IF ~AllInstances(c.items, {"Paragraph"})
        THEN Result(InvalidResult, c.calls, c.built)
        ELSE
        LET new_node == ListItem(node.index, c.items)
        IN  After(Result(None, c.calls, c.built + 1),
                  _xform_chain(new_node, chain, context, path, node, 1))

\* _apply_xform_richtextinlinenode without the check of its items' variants
_apply_xform_richtextinlinenode_unchecked(node, chain, context, path) ==
    LET c == _xform_content(node.content, chain, context, path, 1)
    IN  IF Raised(c) THEN Result(c.val, c.calls, c.built)
        ELSE
        LET new_node == RichtextInlineNode(node.info, c.items)
        IN  After(Result(None, c.calls, c.built + 1),
                  _xform_chain(new_node, chain, context, path, node, 1))

_apply_xform_richtextinlinenode(node, chain, context, path) ==
    LET c == _xform_content(node.content, chain, context, path, 1)
    IN  IF Raised(c) THEN Result(c.val, c.calls, c.built)
        ELSE IF ~AllInstances(c.items, {"str", "RichtextInlineNode"})
        THEN Result(InvalidResult, c.calls, c.built)
        ELSE
        LET new_node == RichtextInlineNode(node.info, c.items)
        IN  After(Result(None, c.calls, c.built + 1),
                  _xform_chain(new_node, chain, context, path, node, 1))

\* an annotation left to the default of the dispatch: returned as it is
_apply_xform_annotation_default(node, chain, context, path) ==
    Result(node, <<>>, 0)

_apply_xform_annotation(node, chain, context, path) ==
    LET new_node == Annotation(node.content)
    IN  After(Result(None, <<>>, 1),
              _xform_chain(new_node, chain, context, path, node, 1))

\* the singledispatch on the node's class; any other value is returned as is
_apply_transformers(node, chain, context, path) ==
    CASE node.kind = "Document" ->
            _apply_xform_document(node, chain, context, path)
      [] node.kind = "RichtextBlockNode" ->
            _apply_xform_richtextblocknode(node, chain, context, path)
      [] node.kind = "EmbeddingBlockNode" ->
            _apply_xform_embeddingblocknode(node, chain, context, path)
      [] node.kind = "Paragraph" ->
            _apply_xform_paragraph(node, chain, context, path)
      [] node.kind = "List_" ->
            _apply_xform_list(node, chain, context, path)
      [] node.kind = "ListItem" ->
            _apply_xform_listitem(node, chain, context, path)
      [] node.kind = "RichtextInlineNode" ->
            _apply_xform_richtextinlinenode(node, chain, context, path)
      [] node.kind = "Annotation" ->
            _apply_xform_annotation(node, chain, context, path)
      [] OTHER -> Result(node, <<>>, 0)

\* apply_transformers without its short-circuit for an empty chain
apply_transformers_no_shortcut(document, chain, context) ==
    LET r == _apply_transformers(document, chain, context, <<>>)
    IN  IF Raised(r) THEN r
        ELSE IF ~isinstance(r.val, {"Document"})
        THEN Result(InvalidResult, r.calls, r.built)
        ELSE r

\* apply_transformers returning whatever the root's chain produced
apply_transformers_no_root_check(document, chain, context) ==
    IF chain = <<>> THEN Result(document, <<>>, 0)
    ELSE _apply_transformers(document, chain, context, <<>>)

apply_transformers(document, chain, context) ==
    IF chain = <<>> THEN Result(document, <<>>, 0)
    ELSE LET r == _apply_transformers(document, chain, context, <<>>)
         IN  IF Raised(r) THEN r
             ELSE IF ~isinstance(r.val, {"Document"})
             THEN Result(InvalidResult, r.calls, r.built)
             ELSE r

----------------------------------------------------------------------------
(* The render tree (generic_templates.py, templatifiers/clc.py): template  *)
(* instances are records; a field typed str holds a string, a field that   *)
(* carries an AST value holds that value.                                  *)

HtmlAttr(key, value) == [kind |-> "HtmlAttr", key |-> key, value |-> value]
PlaintextTemplate(text) == [kind |-> "PlaintextTemplate", text |-> text]
HtmlGenericElement(tag, attrs, body) ==
    [kind |-> "HtmlGenericElement", tag |-> tag, attrs |-> attrs,
     body |-> body]
NodeContentTagWrapper(tag, attrs) ==
    [kind |-> "NodeContentTagWrapper", tag |-> tag, attrs |-> attrs]
ClcMetadataTemplate(type_, key, value, extra_attrs) ==
    [kind |-> "ClcMetadataTemplate", type_ |-> type_, key |-> key,
     value |-> value, extra_attrs |-> extra_attrs]
ClcRichtextBlocknodeTemplate(title, tag_wrappers, metadata, body,
                             spectype_attrs, plugin_attrs, plugin_widgets) ==
    [kind |-> "ClcRichtextBlocknodeTemplate", title |-> title,
     tag_wrappers |-> tag_wrappers, metadata |-> metadata, body |-> body,
     spectype_attrs |-> spectype_attrs, plugin_attrs |-> plugin_attrs,
     plugin_widgets |-> plugin_widgets]
ClcEmbeddingFallbackContentTemplate(body) ==
    [kind |-> "ClcEmbeddingFallbackContentTemplate", body |-> body]
ClcEmbeddingPluginContentTemplate(plugin_name, body) ==
    [kind |-> "ClcEmbeddingPluginContentTemplate",
     plugin_name |-> plugin_name, body |-> body]
ClcEmbeddingBlocknodeTemplate(title, metadata, embedding_content,
                              spectype_attrs, plugin_attrs, tag_wrappers,
                              plugin_widgets) ==
    [kind |-> "ClcEmbeddingBlocknodeTemplate", title |-> title,
     metadata |-> metadata, embedding_content |-> embedding_content,
     spectype_attrs |-> spectype_attrs, plugin_attrs |-> plugin_attrs,
     tag_wrappers |-> tag_wrappers, plugin_widgets |-> plugin_widgets]
ClcRichtextInlineNodeTemplate(metadata, body, tag_wrappers, spectype_attrs,
                              plugin_attrs, plugin_widgets) ==
    [kind |-> "ClcRichtextInlineNodeTemplate", metadata |-> metadata,
     body |-> body, tag_wrappers |-> tag_wrappers,
     spectype_attrs |-> spectype_attrs, plugin_attrs |-> plugin_attrs,
     plugin_widgets |-> plugin_widgets]
ClcParagraphTemplate(body) == [kind |-> "ClcParagraphTemplate", body |-> body]
ClcListTemplate(tag, items) ==
    [kind |-> "ClcListTemplate", tag |-> tag, items |-> items]
ClcListItemTemplate(index, body) ==
    [kind |-> "ClcListItemTemplate", index |-> index, body |-> body]
ClcAnnotationTemplate(text) == [kind |-> "ClcAnnotationTemplate", text |-> text]

\* PluginInjection(widgets=None, attrs=None); a supplied sequence is a list
PluginInjection(widgets, attrs) ==
    [kind |-> "PluginInjection", widgets |-> widgets, attrs |-> attrs]

----------------------------------------------------------------------------
(* Sequencing.  The templatifier's operators return a Result as the        *)
(* pipeline's do: the value or the exception raised, and the calls made to *)
(* plugins and to the target resolver, in order.  A Python list that is    *)
(* the value of a Result is wrapped as [kind |-> "list", items |-> <<>>].  *)

ListVal(items) == [kind |-> "list", items |-> items]
Ok(v) == Result(v, <<>>, 0)
Raise(e) == Result(e, <<>>, 0)
KeyError(msg) == [kind |-> "KeyError", msg |-> msg]

\* the index of the first of the steps from k on that raised, or 0
RECURSIVE FirstRaised(_, _)
FirstRaised(steps, k) ==
    IF k > Len(steps) THEN 0
    ELSE IF Raised(steps[k]) THEN k
    ELSE FirstRaised(steps, k + 1)

\* the calls of the first n steps
RECURSIVE CallsUpTo(_, _)
CallsUpTo(steps, n) ==
    IF n = 0 THEN <<>> ELSE CallsUpTo(steps, n - 1) \o steps[n].calls

\* statements run one after the other: the list of their values, or the
\* first exception raised together with the calls made until it was raised
InOrder(steps) ==
    LET bad == FirstRaised(steps, 1)
    IN  IF bad = 0
        THEN Result(ListVal([k \in 1..Len(steps) |-> steps[k].val]),
                    CallsUpTo(steps, Len(steps)), 0)
        ELSE Result(steps[bad].val, CallsUpTo(steps, bad), 0)

\* r returned: the value the code goes on to make of it
Map(r, F(_)) ==
    IF Raised(r) THEN r ELSE Result(F(r.val), r.calls, r.built)

\* r returned: the statements that follow it
Bind(r, F(_)) ==
    IF Raised(r) THEN r ELSE After(r, F(r.val))

\* list.extend over a sequence of lists
RECURSIVE Extend(_)
Extend(lists) ==
    IF lists = <<>> THEN <<>>
    ELSE lists[1].items \o Extend(Tail(lists))

----------------------------------------------------------------------------
(* The collaborators of a collection: the target resolver and the plugins  *)
(* of its plugin manager are callables supplied by the caller.  doc_coll   *)
(* is the collection as the templatifier reads it: a record with the       *)
(* fields target_resolver, plugin_manager and transformers.                *)

ReferenceDataTypes ==
    {"MentionDataType", "TagDataType", "VariableDataType",
     "ReferenceDataType"}

\* doc_coll.target_resolver(value): "links" resolves every target but the
\* one it does not know, for which it raises
target_resolver(doc_coll, value) ==
    LET out == IF value.value = "missing" THEN KeyError("missing")
               ELSE Str("#" \o value.value)
    IN  Result(out, <<[call |-> "target_resolver",
                       resolver |-> doc_coll.target_resolver,
                       value |-> value, out |-> out]>>, 0)

\* ClcPlugin.__call__(node)
ClcPlugin(plugin, node) ==
    LET out ==
            CASE plugin = "anchors" ->
                    PluginInjection(None,
                        ListVal(<<HtmlAttr("data-anchor", "1")>>))
              [] plugin = "badge" ->
                    PluginInjection(
                        ListVal(<<PlaintextTemplate(Str("badge"))>>), None)
              [] plugin = "both" ->
                    PluginInjection(
                        ListVal(<<PlaintextTemplate(Str("w1")),
                                  PlaintextTemplate(Str("w2"))>>),
                        ListVal(<<HtmlAttr("data-both", "1"),
                                  HtmlAttr("data-anchor", "2")>>))
              [] plugin = "bare" -> PluginInjection(None, None)
              [] plugin = "linkcheck" ->
                    IF /\ node.info # None
                       /\ node.info.target # None
                       /\ node.info.target.value = "broken"
                    THEN ValueError("broken link")
                    ELSE None
              [] OTHER -> None
    IN  Result(out, <<[call |-> "clc_plugin", plugin |-> plugin,
                       node |-> node, out |-> out]>>, 0)

\* EmbeddingsPlugin.__call__(node, embedding_type)
EmbeddingsPlugin(plugin, node, embedding_type) ==
    LET out ==
            CASE plugin = "highlight" ->
                    PluginInjection(
                        ListVal(<<HtmlGenericElement("pre", <<>>,
                                    <<PlaintextTemplate(node.content)>>)>>),
                        ListVal(<<HtmlAttr("data-lang", embedding_type)>>))
              [] plugin = "bare" -> PluginInjection(None, None)
              [] plugin = "empty" ->
                    PluginInjection(ListVal(<<>>), ListVal(<<>>))
              [] plugin = "tagger" ->
                    PluginInjection(None,
                        ListVal(<<HtmlAttr("data-embed", "1")>>))
              [] OTHER -> None
    IN  Result(out, <<[call |-> "embeddings_plugin", plugin |-> plugin,
                       node |-> node, embedding_type |-> embedding_type,
                       out |-> out]>>, 0)

\* PluginManager.get_clc_plugins(node_type)
get_clc_plugins(plugin_manager, node_type) ==
    IF node_type \in DOMAIN plugin_manager.clc
    THEN plugin_manager.clc[node_type] ELSE <<>>

\* PluginManager.get_embeddings_plugins(embedding_type)
get_embeddings_plugins(plugin_manager, embedding_type) ==
    IF embedding_type \in DOMAIN plugin_manager.embeddings
    THEN plugin_manager.embeddings[embedding_type] ELSE <<>>

\* PluginManager.get_docnotes_plugins(summary_type)
get_docnotes_plugins(plugin_manager, summary_type) ==
    IF summary_type \in DOMAIN plugin_manager.docnotes
    THEN plugin_manager.docnotes[summary_type] ELSE <<>>

----------------------------------------------------------------------------
(* templatifiers/clc.py *)

\* html.escape(s, quote=True), on the strings of the model
html_escape(s) ==
    CASE s = "a&b" -> "a&amp;b"
      [] s = "#a&b" -> "#a&amp;b"
      [] s = "<i>" -> "&lt;i&gt;"
      [] s = "say \"x\"" -> "say &quot;x&quot;"
      [] OTHER -> s

\* str.lower, on the member names of the formatting and fallback enums
lower(name) ==
    CASE name = "QUOTE" -> "quote"
      [] name = "STRONG" -> "strong"
      [] name = "EMPHASIS" -> "emphasis"
      [] name = "UNDERLINE" -> "underline"
      [] name = "STRIKE" -> "strike"
      [] name = "PRE" -> "pre"
      [] name = "OTHER" -> "other"
      [] name = "PLAINTEXT" -> "plaintext"
      [] OTHER -> name

DATATYPE_NAMES(cls) ==
    CASE cls = "StrDataType" -> "str"
      [] cls = "IntDataType" -> "int"
      [] cls = "DecimalDataType" -> "dec"
      [] cls = "BoolDataType" -> "bool"
      [] cls = "NullDataType" -> "null"
      [] cls = "MentionDataType" -> "@"
      [] cls = "TagDataType" -> "#"
      [] cls = "VariableDataType" -> "%"
      [] cls = "ReferenceDataType" -> "&"

\* the attribute keys the spec-metadata normalisers emit, in str order
AttrKeyOrder ==
    <<"alt-text", "alt_text", "class", "embed", "embedding", "fallback",
      "formatting", "style-modifiers", "style_modifiers", "sugared",
      "target">>
KeyRank(key) == CHOOSE i \in DOMAIN AttrKeyOrder : AttrKeyOrder[i] = key

\* the list left as the loop built it
SortByKey_unsorted(attrs) == attrs

\* list.sort(key=lambda instance: instance.key): a stable sort
RECURSIVE SortByKey(_)
SortByKey(attrs) ==
    IF attrs = <<>> THEN <<>>
    ELSE LET n == Len(attrs)
             front == SortByKey(SubSeq(attrs, 1, n - 1))
             last == attrs[n]
             keep == {i \in DOMAIN front :
                        KeyRank(front[i].key) <= KeyRank(last.key)}
             at == Cardinality(keep)
         IN  SubSeq(front, 1, at) \o <<last>> \o SubSeq(front, at + 1, n - 1)

\* the members of cleancopy's BlockMetadataMagic and InlineMetadataMagic,
\* by name, in the order the enums declare them.  The enums are the
\* library's: a call of the normalisers on their own is made under the
\* declaration order it names
BlockMetadataMagic ==
    IF op.name = "_transform_spec_metadatas" THEN op.magic
    ELSE <<"is_doc_metadata", "embed", "fallback", "formatting",
           "semantic_modifiers", "style_modifiers", "target">>
InlineMetadataMagic ==
    IF op.name = "_transform_spec_metadatas" THEN op.magic
    ELSE <<"formatting", "semantic_modifiers", "style_modifiers", "sugared",
           "target">>

\* fieldname.replace('_', '-'), on the names of the fields
replace_underscores(fieldname) ==
    CASE fieldname = "alt_text" -> "alt-text"
      [] fieldname = "is_doc_metadata" -> "is-doc-metadata"
      [] fieldname = "semantic_modifiers" -> "semantic-modifiers"
      [] fieldname = "style_modifiers" -> "style-modifiers"
      [] OTHER -> fieldname

\* the round escaping what the resolver returned as it escapes a scalar
_transform_spec_field_escape_resolved(value, fieldname, skipped, enums, doc_coll) ==
    LET field_value == value[fieldname]
        coerced_fieldname ==
            CASE fieldname = "embed" -> "embedding"
              [] fieldname = "style_modifiers" -> "class"
              [] OTHER -> replace_underscores(fieldname)
    IN  IF fieldname \in skipped \/ field_value = None
        THEN Ok(ListVal(<<>>))
        ELSE IF fieldname \in enums
        THEN Ok(ListVal(<<HtmlAttr(fieldname, lower(field_value.name))>>))
        ELSE IF field_value.kind \in ReferenceDataTypes
        THEN LET resolved == target_resolver(doc_coll, field_value)
             IN  IF Raised(resolved) THEN resolved
                 ELSE Result(ListVal(<<HtmlAttr(coerced_fieldname,
                                        html_escape(resolved.val.value))>>),
                             resolved.calls, 0)
        ELSE Ok(ListVal(<<HtmlAttr(coerced_fieldname,
                                   html_escape(field_value.value))>>))

\* one round of the loop of _transform_spec_metadatas_block/_inline: the
\* attributes (none or one) the field contributes
_transform_spec_field(value, fieldname, skipped, enums, doc_coll) ==
    LET field_value == value[fieldname]
        coerced_fieldname ==
            CASE fieldname = "embed" -> "embedding"
              [] fieldname = "style_modifiers" -> "class"
              [] OTHER -> replace_underscores(fieldname)
    IN  IF fieldname \in skipped \/ field_value = None
        THEN Ok(ListVal(<<>>))
        ELSE IF fieldname \in enums
        THEN Ok(ListVal(<<HtmlAttr(fieldname, lower(field_value.name))>>))
        ELSE IF field_value.kind \in ReferenceDataTypes
        THEN LET resolved == target_resolver(doc_coll, field_value)
             IN  IF Raised(resolved) THEN resolved
                 ELSE Result(ListVal(<<HtmlAttr(coerced_fieldname,
                                                resolved.val.value)>>),
                             resolved.calls, 0)
        ELSE Ok(ListVal(<<HtmlAttr(coerced_fieldname,
                                   html_escape(field_value.value))>>))

_transform_spec_metadatas_block(value, doc_coll) ==
    LET rounds == InOrder([k \in DOMAIN BlockMetadataMagic |->
                    _transform_spec_field(value, BlockMetadataMagic[k],
                        {"is_doc_metadata", "semantic_modifiers"},
                        {"formatting", "fallback"}, doc_coll)])
    IN  IF Raised(rounds) THEN rounds
        ELSE Result(ListVal(SortByKey(Extend(rounds.val.items))),
                    rounds.calls, 0)

\* the inline normaliser with the skips and the enum fields of the block one
_transform_spec_metadatas_inline_as_block(value, doc_coll) ==
    LET rounds == InOrder([k \in DOMAIN InlineMetadataMagic |->
                    _transform_spec_field(value, InlineMetadataMagic[k],
                        {"is_doc_metadata", "semantic_modifiers"},
                        {"formatting", "fallback"}, doc_coll)])
    IN  IF Raised(rounds) THEN rounds
        ELSE Result(ListVal(SortByKey(Extend(rounds.val.items))),
                    rounds.calls, 0)

_transform_spec_metadatas_inline(value, doc_coll) ==
    LET rounds == InOrder([k \in DOMAIN InlineMetadataMagic |->
                    _transform_spec_field(value, InlineMetadataMagic[k],
                        {"formatting", "sugared", "semantic_modifiers"},
                        {}, doc_coll)])
    IN  IF Raised(rounds) THEN rounds
        ELSE Result(ListVal(SortByKey(Extend(rounds.val.items))),
                    rounds.calls, 0)

\* the round without the special case of the null: str(None) is the value
ClcMetadataTemplate_from_item_no_null_case(item, doc_coll) ==
    LET datatyped_value == item.value
        type_ == DATATYPE_NAMES(datatyped_value.kind)
    IN  IF datatyped_value.kind \in ReferenceDataTypes
        THEN LET href == target_resolver(doc_coll, datatyped_value)
             IN  IF Raised(href) THEN href
                 ELSE Result(
                        ClcMetadataTemplate(type_, item.key,
                            html_escape(datatyped_value.value),
                            <<HtmlAttr("href", href.val.value)>>),
                        href.calls, 0)
        ELSE Ok(ClcMetadataTemplate(type_, item.key,
                    html_escape(datatyped_value.value), <<>>))

\* one round of the loop of ClcMetadataTemplate.from_ast_node
ClcMetadataTemplate_from_item(item, doc_coll) ==
    LET datatyped_value == item.value
        type_ == DATATYPE_NAMES(datatyped_value.kind)
    IN  IF datatyped_value.kind = "NullDataType"
        THEN Ok(ClcMetadataTemplate(type_, item.key, "", <<>>))
        ELSE IF datatyped_value.kind \in ReferenceDataTypes
        THEN LET href == target_resolver(doc_coll, datatyped_value)
             IN  IF Raised(href) THEN href
                 ELSE Result(
                        ClcMetadataTemplate(type_, item.key,
                            html_escape(datatyped_value.value),
                            <<HtmlAttr("href", href.val.value)>>),
                        href.calls, 0)
        ELSE Ok(ClcMetadataTemplate(type_, item.key,
                    html_escape(datatyped_value.value), <<>>))

ClcMetadataTemplate_from_ast_node(node, doc_coll) ==
    InOrder([k \in DOMAIN node.metadata |->
                ClcMetadataTemplate_from_item(node.metadata[k], doc_coll)])

\* templatey's InjectedValue(value, use_variable_escaper=False)
InjectedValue(value) == [kind |-> "InjectedValue", value |-> value]

\* the items one wrapper's attrs add to the start tag
RECURSIVE _wrap_attrs(_)
_wrap_attrs(attrs) ==
    IF attrs = <<>> THEN <<>>
    ELSE <<Str(" "), attrs[1]>> \o _wrap_attrs(Tail(attrs))

RECURSIVE wrap_node_start(_)
wrap_node_start(wrappers) ==
    IF wrappers = <<>> THEN <<>>
    ELSE <<InjectedValue("<"), Str(wrappers[1].tag)>>
         \o _wrap_attrs(wrappers[1].attrs)
         \o <<InjectedValue(">")>>
         \o wrap_node_start(Tail(wrappers))

\* reversed(wrappers)
reversed(wrappers) ==
    [k \in DOMAIN wrappers |-> wrappers[Len(wrappers) + 1 - k]]

\* the loop of wrap_node_end over the wrappers it is given
RECURSIVE _wrap_end_tags(_)
_wrap_end_tags(wrappers) ==
    IF wrappers = <<>> THEN <<>>
    ELSE <<InjectedValue("</"), Str(wrappers[1].tag), InjectedValue(">")>>
         \o _wrap_end_tags(Tail(wrappers))

\* wrap_node_end walking the wrappers forward
wrap_node_end_forward(wrappers) == _wrap_end_tags(wrappers)

wrap_node_end(wrappers) == _wrap_end_tags(reversed(wrappers))

InvalidSpectype == TypeError("Invalid spectype for inline formatting!")

formatting_factory_inline(spectype) ==
    CASE spectype = Enum("InlineFormatting", "PRE") ->
            Ok(NodeContentTagWrapper("code",
                    <<HtmlAttr("class", "clc-fmt-pre")>>))
      [] spectype = Enum("InlineFormatting", "UNDERLINE") ->
            Ok(NodeContentTagWrapper("clc-ul", <<>>))
      [] spectype = Enum("InlineFormatting", "STRONG") ->
            Ok(NodeContentTagWrapper("strong", <<>>))
      [] spectype = Enum("InlineFormatting", "EMPHASIS") ->
            Ok(NodeContentTagWrapper("em", <<>>))
      [] spectype = Enum("InlineFormatting", "STRIKE") ->
            Ok(NodeContentTagWrapper("s", <<>>))
      [] spectype = Enum("InlineFormatting", "QUOTE") ->
            Ok(NodeContentTagWrapper("q", <<>>))
      [] OTHER -> Raise(InvalidSpectype)

formatting_factory_block(spectype) ==
    IF spectype = Enum("BlockFormatting", "QUOTE")
    THEN Ok(NodeContentTagWrapper("blockquote", <<>>))
    ELSE Raise(InvalidSpectype)

\* the wrappers (none or one) info.semantic_modifiers contributes
_wrap_semantic_modifiers(info) ==
    IF info.semantic_modifiers # None
    THEN Ok(ListVal(<<NodeContentTagWrapper(info.semantic_modifiers.value,
                                            <<>>)>>))
    ELSE Ok(ListVal(<<>>))

\* the wrappers (none or one) info.target contributes
_wrap_target(info, doc_coll) ==
    IF info.target = None THEN Ok(ListVal(<<>>))
    ELSE IF info.target.kind = "StrDataType"
    THEN Ok(ListVal(<<NodeContentTagWrapper("a",
                <<HtmlAttr("href", html_escape(info.target.value))>>)>>))
    ELSE LET href == target_resolver(doc_coll, info.target)
         IN  IF Raised(href) THEN href
             ELSE Result(ListVal(<<NodeContentTagWrapper("a",
                            <<HtmlAttr("href", href.val.value)>>)>>),
                         href.calls, 0)

\* the wrappers (none or one) info.formatting contributes
_wrap_formatting(info, wrapper) ==
    IF info.formatting = None THEN Ok(ListVal(<<>>))
    ELSE IF Raised(wrapper) THEN wrapper
    ELSE Ok(ListVal(<<wrapper.val>>))

\* the derivation with the formatting taken before the link target
_derive_inlinenode_tag_wrappers_formatting_first(info, doc_coll) ==
    LET wrappers == InOrder(<<
            _wrap_semantic_modifiers(info),
            _wrap_formatting(info, formatting_factory_inline(info.formatting)),
            _wrap_target(info, doc_coll)
            >>)
    IN  IF Raised(wrappers) THEN wrappers
        ELSE Result(ListVal(Extend(wrappers.val.items)), wrappers.calls, 0)

_derive_inlinenode_tag_wrappers(info, doc_coll) ==
    LET wrappers == InOrder(<<
            _wrap_semantic_modifiers(info),
            _wrap_target(info, doc_coll),
            _wrap_formatting(info, formatting_factory_inline(info.formatting))
            >>)
    IN  IF Raised(wrappers) THEN wrappers
        ELSE Result(ListVal(Extend(wrappers.val.items)), wrappers.calls, 0)

_derive_blocknode_tag_wrappers(info, doc_coll) ==
    LET wrappers == InOrder(<<
            _wrap_semantic_modifiers(info),
            _wrap_target(info, doc_coll),
            _wrap_formatting(info, formatting_factory_block(info.formatting))
            >>)
    IN  IF Raised(wrappers) THEN wrappers
        ELSE Result(ListVal(Extend(wrappers.val.items)), wrappers.calls, 0)

\* the attrs and the widgets the injections contribute, None ones skipped
InjectedAttrs(injections) ==
    Extend(SelectSeq([k \in DOMAIN injections |->
                        IF injections[k] = None THEN None
                        ELSE injections[k].attrs],
                     LAMBDA a : a # None))
InjectedWidgets(injections) ==
    Extend(SelectSeq([k \in DOMAIN injections |->
                        IF injections[k] = None THEN None
                        ELSE injections[k].widgets],
                     LAMBDA w : w # None))

\* _apply_plugins stopping at the first injection, as the embeddings do
_apply_plugins_first_only(doc_coll, node_type, node) ==
    LET plugins == get_clc_plugins(doc_coll.plugin_manager, node_type)
        outs == [k \in DOMAIN plugins |-> ClcPlugin(plugins[k], node)]
        last == IF \E k \in DOMAIN outs : outs[k].val # None
                THEN CHOOSE k \in DOMAIN outs :
                        /\ outs[k].val # None
                        /\ \A j \in 1..(k - 1) : outs[j].val = None
                ELSE Len(outs)
        injections == InOrder(SubSeq(outs, 1, last))
    IN  IF Raised(injections) THEN injections
        ELSE Result([kind |-> "tuple",
                     plugin_attrs |-> InjectedAttrs(injections.val.items),
                     plugin_widgets |-> InjectedWidgets(injections.val.items)],
                    injections.calls, 0)

_apply_plugins(doc_coll, node_type, node) ==
    LET plugins == get_clc_plugins(doc_coll.plugin_manager, node_type)
        injections == InOrder([k \in DOMAIN plugins |->
                                ClcPlugin(plugins[k], node)])
    IN  IF Raised(injections) THEN injections
        ELSE Result([kind |-> "tuple",
                     plugin_attrs |-> InjectedAttrs(injections.val.items),
                     plugin_widgets |-> InjectedWidgets(injections.val.items)],
                    injections.calls, 0)

RECURSIVE ClcRichtextInlineNodeTemplate_from_ast_node(_, _)
RECURSIVE ClcParagraphTemplate_from_ast_node(_, _)
RECURSIVE ClcRichtextBlocknodeTemplate_from_ast_node(_, _)

\* one round of the content loop of ClcRichtextInlineNodeTemplate
_inline_content_segment(content_segment, doc_coll) ==
    IF isinstance(content_segment, {"str"})
    THEN Ok(PlaintextTemplate(content_segment))
    ELSE IF isinstance(content_segment, {"RichtextInlineNode"})
    THEN ClcRichtextInlineNodeTemplate_from_ast_node(content_segment, doc_coll)
    ELSE Raise(TypeError("Invalid child of inline richtext node!"))

\* the statements, in the order they run: the content loop, the plugins,
\* and for a node with info its metadata, tag wrappers and spec attrs
ClcRichtextInlineNodeTemplate_from_ast_node(node, doc_coll) ==
    Map(InOrder(<<
            InOrder([k \in DOMAIN node.content |->
                        _inline_content_segment(node.content[k], doc_coll)]),
            _apply_plugins(doc_coll, "RichtextInlineNode", node),
            IF node.info = None THEN Ok(ListVal(<<>>))
            ELSE ClcMetadataTemplate_from_ast_node(node.info, doc_coll),
            IF node.info = None THEN Ok(ListVal(<<>>))
            ELSE _derive_inlinenode_tag_wrappers(node.info, doc_coll),
            IF node.info = None THEN Ok(ListVal(<<>>))
            ELSE _transform_spec_metadatas_inline(node.info, doc_coll)>>),
        LAMBDA v :
            ClcRichtextInlineNodeTemplate(
                v.items[3].items, v.items[1].items, v.items[4].items,
                v.items[5].items, v.items[2].plugin_attrs,
                v.items[2].plugin_widgets))

ClcAnnotationTemplate_from_ast_node(node, doc_coll) ==
    Ok(ClcAnnotationTemplate(node.content))

ClcListItemTemplate_from_ast_node(node, doc_coll) ==
    Map(InOrder([k \in DOMAIN node.content |->
                    ClcParagraphTemplate_from_ast_node(node.content[k],
                                                       doc_coll)]),
        LAMBDA body : ClcListItemTemplate(node.index, body.items))

ClcListTemplate_from_ast_node(node, doc_coll) ==
    Map(InOrder([k \in DOMAIN node.content |->
                    ClcListItemTemplate_from_ast_node(node.content[k],
                                                      doc_coll)]),
        LAMBDA items :
            ClcListTemplate(
                IF node.type_ = Enum("ListType", "ORDERED") THEN "ol"
                ELSE "ul",
                items.items))

\* one round of the content loop of ClcParagraphTemplate
_paragraph_nested(nested, doc_coll) ==
    IF isinstance(nested, {"RichtextInlineNode"})
    THEN ClcRichtextInlineNodeTemplate_from_ast_node(nested, doc_coll)
    ELSE IF isinstance(nested, {"List_"})
    THEN ClcListTemplate_from_ast_node(nested, doc_coll)
    ELSE IF isinstance(nested, {"Annotation"})
    THEN ClcAnnotationTemplate_from_ast_node(nested, doc_coll)
    ELSE Raise(TypeError("Invalid child of paragraph!"))

ClcParagraphTemplate_from_ast_node(node, doc_coll) ==
    Map(InOrder([k \in DOMAIN node.content |->
                    _paragraph_nested(node.content[k], doc_coll)]),
        LAMBDA body : ClcParagraphTemplate(body.items))

\* heading_factory clamping below only
heading_factory_unclamped(depth, body) ==
    LET heading_level == IF depth < 0 THEN 1 ELSE depth + 1
    IN  HtmlGenericElement("h" \o ToString(heading_level), <<>>, body)

heading_factory(depth, body) ==
    LET heading_level == IF depth < 0 THEN 1
                         ELSE IF depth > 5 THEN 6
                         ELSE depth + 1
    IN  HtmlGenericElement("h" \o ToString(heading_level), <<>>, body)

\* the title slot of a block node: empty, or one heading
_blocknode_title(node, doc_coll) ==
    IF node.title = None THEN Ok(ListVal(<<>>))
    ELSE Map(ClcRichtextInlineNodeTemplate_from_ast_node(node.title, doc_coll),
             LAMBDA inline :
                ListVal(<<heading_factory(node.depth, <<inline>>)>>))

\* the loop without its break: every injection that is not None is applied
RECURSIVE _embedding_content_no_break(_, _, _, _)
_embedding_content_no_break(node, embedding_type, embeddings_plugins, k) ==
    IF k > Len(embeddings_plugins)
    THEN Ok([kind |-> "tuple", embedding_content |-> <<>>,
             plugin_attrs |-> <<>>])
    ELSE Bind(EmbeddingsPlugin(embeddings_plugins[k], node, embedding_type),
              LAMBDA plugin_injection :
                Map(_embedding_content_no_break(node, embedding_type,
                                                embeddings_plugins, k + 1),
                    LAMBDA rest :
                        IF plugin_injection = None THEN rest
                        ELSE [kind |-> "tuple",
                              embedding_content |->
                                <<ClcEmbeddingPluginContentTemplate(
                                    embeddings_plugins[k],
                                    IF plugin_injection.widgets = None
                                    THEN <<>>
                                    ELSE plugin_injection.widgets.items)>>
                                \o rest.embedding_content,
                              plugin_attrs |->
                                (IF plugin_injection.attrs # None
                                 THEN plugin_injection.attrs.items
                                 ELSE <<>>) \o rest.plugin_attrs]))

\* the loop testing the injection for content instead of for None
RECURSIVE _embedding_content_skip_empty(_, _, _, _)
_embedding_content_skip_empty(node, embedding_type, embeddings_plugins, k) ==
    IF k > Len(embeddings_plugins)
    THEN Ok([kind |-> "tuple",
             embedding_content |->
                <<ClcEmbeddingFallbackContentTemplate(
                    IF node.content = None THEN <<>>
                    ELSE <<PlaintextTemplate(node.content)>>)>>,
             plugin_attrs |-> <<>>])
    ELSE Bind(EmbeddingsPlugin(embeddings_plugins[k], node, embedding_type),
              LAMBDA plugin_injection :
                IF /\ plugin_injection # None
                   /\ \/ plugin_injection.widgets
                            \notin {None, ListVal(<<>>)}
                      \/ plugin_injection.attrs \notin {None, ListVal(<<>>)}
                THEN Ok([kind |-> "tuple",
                         embedding_content |->
                            <<ClcEmbeddingPluginContentTemplate(
                                embeddings_plugins[k],
                                IF plugin_injection.widgets = None THEN <<>>
                                ELSE plugin_injection.widgets.items)>>,
                         plugin_attrs |->
                            IF plugin_injection.attrs # None
                            THEN plugin_injection.attrs.items
                            ELSE <<>>])
                ELSE _embedding_content_skip_empty(node, embedding_type,
                        embeddings_plugins, k + 1))

\* the fallback appended after the loop, whether or not the loop broke
RECURSIVE _embedding_content_always_fallback(_, _, _, _)
_embedding_content_always_fallback(node, embedding_type, embeddings_plugins, k) ==
    IF k > Len(embeddings_plugins)
    THEN Ok([kind |-> "tuple",
             embedding_content |->
                <<ClcEmbeddingFallbackContentTemplate(
                    IF node.content = None THEN <<>>
                    ELSE <<PlaintextTemplate(node.content)>>)>>,
             plugin_attrs |-> <<>>])
    ELSE Bind(EmbeddingsPlugin(embeddings_plugins[k], node, embedding_type),
              LAMBDA plugin_injection :
                IF plugin_injection # None
                THEN Ok([kind |-> "tuple",
                         embedding_content |->
                            <<ClcEmbeddingPluginContentTemplate(
                                embeddings_plugins[k],
                                IF plugin_injection.widgets = None THEN <<>>
                                ELSE plugin_injection.widgets.items),
                              ClcEmbeddingFallbackContentTemplate(
                                IF node.content = None THEN <<>>
                                ELSE <<PlaintextTemplate(node.content)>>)>>,
                         plugin_attrs |->
                            IF plugin_injection.attrs # None
                            THEN plugin_injection.attrs.items
                            ELSE <<>>])
                ELSE _embedding_content_always_fallback(node, embedding_type,
                        embeddings_plugins, k + 1))

\* the loop over the embeddings plugins, from the k-th plugin on: the first
\* injection that is not None is applied; without one, the fallback
RECURSIVE _embedding_content(_, _, _, _)
_embedding_content(node, embedding_type, embeddings_plugins, k) ==
    IF k > Len(embeddings_plugins)
    THEN Ok([kind |-> "tuple",
             embedding_content |->
                <<ClcEmbeddingFallbackContentTemplate(
                    IF node.content = None THEN <<>>
                    ELSE <<PlaintextTemplate(node.content)>>)>>,
             plugin_attrs |-> <<>>])
    ELSE Bind(EmbeddingsPlugin(embeddings_plugins[k], node, embedding_type),
              LAMBDA plugin_injection :
                IF plugin_injection # None
                THEN Ok([kind |-> "tuple",
                         embedding_content |->
                            <<ClcEmbeddingPluginContentTemplate(
                                embeddings_plugins[k],
                                IF plugin_injection.widgets = None THEN <<>>
                                ELSE plugin_injection.widgets.items)>>,
                         plugin_attrs |->
                            IF plugin_injection.attrs # None
                            THEN plugin_injection.attrs.items
                            ELSE <<>>])
                ELSE _embedding_content(node, embedding_type,
                                        embeddings_plugins, k + 1))

NoNodeinfo ==
    TypeError("Impossible branch: embedding block node without nodeinfo!")
NullEmbed ==
    TypeError("Impossible branch: embedding block node with null nodeinfo.embed!")

\* the two checks of the node info of an embedding block node
_embedding_nodeinfo(node) ==
    IF node.info = None THEN Raise(NoNodeinfo)
    ELSE IF node.info.embed = None THEN Raise(NullEmbed)
    ELSE Ok(node.info)

\* the two checks taken for a node without an embedding type: the node is
\* rendered by its fallback content alone
ClcEmbeddingBlocknodeTemplate_from_ast_node_unchecked(node, doc_coll) ==
    Map(InOrder(<<
            _blocknode_title(node, doc_coll),
            _apply_plugins(doc_coll, "EmbeddingBlockNode", node),
            IF Raised(_embedding_nodeinfo(node))
            THEN _embedding_content(node, None, <<>>, 1)
            ELSE _embedding_content(node, node.info.embed.value,
                    get_embeddings_plugins(doc_coll.plugin_manager,
                                           node.info.embed.value), 1),
            IF Raised(_embedding_nodeinfo(node)) THEN Ok(ListVal(<<>>))
            ELSE _derive_blocknode_tag_wrappers(node.info, doc_coll),
            IF Raised(_embedding_nodeinfo(node)) THEN Ok(ListVal(<<>>))
            ELSE _transform_spec_metadatas_block(node.info, doc_coll),
            IF Raised(_embedding_nodeinfo(node)) THEN Ok(ListVal(<<>>))
            ELSE ClcMetadataTemplate_from_ast_node(node.info, doc_coll)>>),
        LAMBDA v :
            ClcEmbeddingBlocknodeTemplate(
                v.items[1].items,
                v.items[6].items,
                v.items[3].embedding_content,
                v.items[5].items,
                v.items[2].plugin_attrs \o v.items[3].plugin_attrs,
                v.items[4].items,
                v.items[2].plugin_widgets))

\* the statements, in the order they run: the title, the plugins, the two
\* checks, the embeddings plugins, the tag wrappers, the spec attrs and
\* the metadata; the ones after the checks read an info the checks passed
ClcEmbeddingBlocknodeTemplate_from_ast_node(node, doc_coll) ==
    Map(InOrder(<<
            _blocknode_title(node, doc_coll),
            _apply_plugins(doc_coll, "EmbeddingBlockNode", node),
            _embedding_nodeinfo(node),
            IF Raised(_embedding_nodeinfo(node)) THEN Ok(None)
            ELSE _embedding_content(node, node.info.embed.value,
                    get_embeddings_plugins(doc_coll.plugin_manager,
                                           node.info.embed.value), 1),
            IF Raised(_embedding_nodeinfo(node)) THEN Ok(None)
            ELSE _derive_blocknode_tag_wrappers(node.info, doc_coll),
            IF Raised(_embedding_nodeinfo(node)) THEN Ok(None)
            ELSE _transform_spec_metadatas_block(node.info, doc_coll),
            IF Raised(_embedding_nodeinfo(node)) THEN Ok(None)
            ELSE ClcMetadataTemplate_from_ast_node(node.info, doc_coll)>>),
        LAMBDA v :
            ClcEmbeddingBlocknodeTemplate(
                v.items[1].items,
                v.items[7].items,
                v.items[4].embedding_content,
                v.items[6].items,
                v.items[2].plugin_attrs \o v.items[4].plugin_attrs,
                v.items[5].items,
                v.items[2].plugin_widgets))

\* one round of the content loop of ClcRichtextBlocknodeTemplate
_blocknode_content(paragraph_or_node, doc_coll) ==
    IF isinstance(paragraph_or_node, {"Paragraph"})
    THEN ClcParagraphTemplate_from_ast_node(paragraph_or_node, doc_coll)
    ELSE IF isinstance(paragraph_or_node, {"EmbeddingBlockNode"})
    THEN ClcEmbeddingBlocknodeTemplate_from_ast_node(paragraph_or_node,
                                                     doc_coll)
    ELSE IF isinstance(paragraph_or_node, {"RichtextBlockNode"})
    THEN ClcRichtextBlocknodeTemplate_from_ast_node(paragraph_or_node,
                                                    doc_coll)
    ELSE Raise(TypeError("Invalid child of richtext blocknode!"))

\* the statements, in the order they run: the title, the content loop, the
\* plugins, and for a node with info its tag wrappers, spec attrs and
\* metadata
ClcRichtextBlocknodeTemplate_from_ast_node(node, doc_coll) ==
    Map(InOrder(<<
            _blocknode_title(node, doc_coll),
            InOrder([k \in DOMAIN node.content |->
                        _blocknode_content(node.content[k], doc_coll)]),
            _apply_plugins(doc_coll, "RichtextBlockNode", node),
            IF node.info = None THEN Ok(ListVal(<<>>))
            ELSE _derive_blocknode_tag_wrappers(node.info, doc_coll),
            IF node.info = None THEN Ok(ListVal(<<>>))
            ELSE _transform_spec_metadatas_block(node.info, doc_coll),
            IF node.info = None THEN Ok(ListVal(<<>>))
            ELSE ClcMetadataTemplate_from_ast_node(node.info, doc_coll)>>),
        LAMBDA v :
            ClcRichtextBlocknodeTemplate(
                v.items[1].items, v.items[4].items, v.items[6].items,
                v.items[2].items, v.items[5].items,
                v.items[3].plugin_attrs, v.items[3].plugin_widgets))

\* a Document is templatified as its root, with the metadata of the
\* document's own info, if it has one, in the place of the root's
\* from_document with the template left as from_ast_node constructed it
ClcRichtextBlocknodeTemplate_from_document_root_only(node, doc_coll) ==
    ClcRichtextBlocknodeTemplate_from_ast_node(
        IF isinstance(node, {"Document"}) THEN node.root ELSE node, doc_coll)

\* template_instance.metadata = value: the template with the field assigned,
\* and the assignment in the log
_assign_metadata(template_instance, value) ==
    Result([template_instance EXCEPT !.metadata = value.items],
           <<[call |-> "__setattr__", node |-> template_instance,
              field |-> "metadata", value |-> value]>>, 0)

\* from_document giving the root the title of the Document around it
ClcRichtextBlocknodeTemplate_from_document_titled(node, doc_coll) ==
    Bind(InOrder(<<
                ClcRichtextBlocknodeTemplate_from_ast_node(
                    IF isinstance(node, {"Document"})
                    THEN [node.root EXCEPT !.title =
                            IF node.title # None THEN node.title ELSE @]
                    ELSE node,
                    doc_coll),
                IF isinstance(node, {"Document"}) /\ node.info # None
                THEN ClcMetadataTemplate_from_ast_node(node.info, doc_coll)
                ELSE Ok(None)>>),
         LAMBDA v :
            IF v.items[2] = None THEN Ok(v.items[1])
            ELSE _assign_metadata(v.items[1], v.items[2]))

ClcRichtextBlocknodeTemplate_from_document(node, doc_coll) ==
    Bind(InOrder(<<
                ClcRichtextBlocknodeTemplate_from_ast_node(
                    IF isinstance(node, {"Document"}) THEN node.root ELSE node,
                    doc_coll),
                IF isinstance(node, {"Document"}) /\ node.info # None
                THEN ClcMetadataTemplate_from_ast_node(node.info, doc_coll)
                ELSE Ok(None)>>),
         LAMBDA v :
            IF v.items[2] = None THEN Ok(v.items[1])
            ELSE _assign_metadata(v.items[1], v.items[2]))

----------------------------------------------------------------------------
(* The documents the parser and abstractifier hand to the pipeline:        *)
(* well-typed cleancopy ASTs.                                              *)

Range(seq) == {seq[i] : i \in DOMAIN seq}

RECURSIVE SeqsUpTo(_, _)
SeqsUpTo(S, n) ==
    IF n = 0 THEN {<<>>}
    ELSE LET shorter == SeqsUpTo(S, n - 1)
         IN  shorter \cup {Append(q, x) : q \in {r \in shorter : Len(r) = n - 1},
                                          x \in S}

StrongInfo ==
    InlineNodeInfo(None, Enum("InlineFormatting", "STRONG"), <<>>)
LinkInfo ==
    InlineNodeInfo(DataType("StrDataType", "http://e.example"), None,
                   <<MetaItem("k", DataType("NullDataType", "None"))>>)
EmbedInfo ==
    BlockNodeInfo(DataType("StrDataType", "code"), None, None, <<>>)
QuoteInfo ==
    BlockNodeInfo(None, None, Enum("BlockFormatting", "QUOTE"),
                  <<MetaItem("author", DataType("StrDataType", "me"))>>)

TitleInline == RichtextInlineNode(None, <<Str("a")>>)
TextParagraph ==
    Paragraph(<<RichtextInlineNode(LinkInfo,
                    <<Str("a"), RichtextInlineNode(StrongInfo, <<Str("b")>>)>>),
                Annotation(Str("note"))>>)
ListParagraph ==
    Paragraph(<<List_(Enum("ListType", "ORDERED"),
                    <<ListItem(IntVal(1),
                        <<Paragraph(<<RichtextInlineNode(None, <<Str("a")>>)>>)
                        >>)>>)>>)
Embedding == EmbeddingBlockNode(TitleInline, EmbedInfo, 1, Str("x = 1"))
Section ==
    RichtextBlockNode(TitleInline, QuoteInfo, 1,
        <<Paragraph(<<RichtextInlineNode(None, <<Str("b")>>)>>)>>)

BodyItems == {TextParagraph, ListParagraph, Embedding, Section}

AstDocuments ==
    {ClcDocument(title, None, RichtextBlockNode(None, None, 0, body)) :
        title \in {None, TitleInline}, body \in SeqsUpTo(BodyItems, MaxBody)}

Contexts == {None, Str("ns")}
Chains == SeqsUpTo(TransformerPool, MaxChain)

----------------------------------------------------------------------------
(* XformSpec: apply_transformers as a function of its three arguments.     *)

Pending == [kind |-> "pending"]
NoCall == [name |-> "none"]

XformInit ==
    /\ transformers \in Chains
    /\ documents = <<>>
    /\ op \in {[name |-> "apply_transformers", document |-> d, context |-> c] :
                    d \in AstDocuments, c \in Contexts}
    /\ outcome = Pending
    /\ calls = <<>>

ApplyTransformers ==
    /\ op.name = "apply_transformers"
    /\ outcome = Pending
    /\ LET r == apply_transformers(op.document, transformers, op.context)
       IN  /\ outcome' = [val |-> r.val, built |-> r.built]
           /\ calls' = r.calls
    /\ UNCHANGED <<transformers, documents, op>>

XformNext == ApplyTransformers

XformSpec == XformInit /\ [][XformNext]_vars

----------------------------------------------------------------------------
(* HtmlDocumentCollection.preprocess (documents.py).  A cleancopy text is  *)
(* a value that carries the AST the parser and the abstractifier make of   *)
(* it; encoding a str to bytes does not change that AST.                   *)

ClcText(ast) == [kind |-> "str", ast |-> ast]

\* self.abstractifier.convert(parse(clc_text))
abstractify(clc_text) == clc_text.ast

preprocess(self, clc_text, context) ==
    apply_transformers(abstractify(clc_text), self.transformers, context)

----------------------------------------------------------------------------
(* templatifiers/docnotes.py, for module summaries whose members are       *)
(* variables without a typespec.                                           *)

DocText(value, markup_lang) ==
    [kind |-> "DocText", value |-> value, markup_lang |-> markup_lang]
Bool(b) == [kind |-> "bool", b |-> b]
SummaryMetadata(extracted_inclusion, to_document, disowned) ==
    [kind |-> "SummaryMetadata", extracted_inclusion |-> extracted_inclusion,
     to_document |-> to_document, disowned |-> disowned]
VariableSummary(name, notes, metadata) ==
    [kind |-> "VariableSummary", name |-> name, notes |-> notes,
     metadata |-> metadata]
ModuleSummary(name, docstring, dunder_all, members, metadata) ==
    [kind |-> "ModuleSummary", name |-> name, docstring |-> docstring,
     dunder_all |-> dunder_all, members |-> members, metadata |-> metadata]
SummaryTreeNode(module_summary) ==
    [kind |-> "SummaryTreeNode", module_summary |-> module_summary]
FrozenSet(items) == [kind |-> "frozenset", items |-> items]

ModuleSummaryTemplate(fullname, docstring, dunder_all, members, plugin_attrs,
                      plugin_widgets) ==
    [kind |-> "ModuleSummaryTemplate", fullname |-> fullname,
     docstring |-> docstring, dunder_all |-> dunder_all, members |-> members,
     plugin_attrs |-> plugin_attrs, plugin_widgets |-> plugin_widgets]
VariableSummaryTemplate(name, typespec, notes, plugin_attrs, plugin_widgets) ==
    [kind |-> "VariableSummaryTemplate", name |-> name, typespec |-> typespec,
     notes |-> notes, plugin_attrs |-> plugin_attrs,
     plugin_widgets |-> plugin_widgets]

\* DocnotesPlugin.__call__(summary)
DocnotesPlugin(plugin, summary) ==
    LET out ==
            CASE plugin = "modtag" ->
                    PluginInjection(None,
                        ListVal(<<HtmlAttr("data-module", summary.name)>>))
              [] plugin = "source" ->
                    PluginInjection(
                        ListVal(<<PlaintextTemplate(Str("source")),
                                  PlaintextTemplate(Str(summary.name))>>),
                        ListVal(<<HtmlAttr("data-source", "1")>>))
              [] plugin = "bare" -> PluginInjection(None, None)
              [] OTHER -> None
    IN  Result(out, <<[call |-> "docnotes_plugin", plugin |-> plugin,
                       summary |-> summary, out |-> out]>>, 0)

\* _apply_plugins of docnotes.py
_apply_docnotes_plugins(doc_coll, summary_type, summary) ==
    LET plugins == get_docnotes_plugins(doc_coll.plugin_manager, summary_type)
        injections == InOrder([k \in DOMAIN plugins |->
                                DocnotesPlugin(plugins[k], summary)])
    IN  IF Raised(injections) THEN injections
        ELSE Result([kind |-> "tuple",
                     plugin_attrs |-> InjectedAttrs(injections.val.items),
                     plugin_widgets |-> InjectedWidgets(injections.val.items)],
                    injections.calls, 0)

\* the characters of MarkupLang.CLEANCOPY.value, 'cleancopy'
CleancopyValueSet == {"c", "l", "e", "a", "n", "o", "p", "y"}

\* the markup language of a doctext whose markup_lang is not None
_markup_lang(doctext) ==
    IF isinstance(doctext.markup_lang, {"str"})
    THEN IF doctext.markup_lang.value \in CleancopyValueSet
         THEN Enum("MarkupLang", "CLEANCOPY") ELSE None
    ELSE doctext.markup_lang

templatify_doctext(doctext, doc_coll, summary_metadata) ==
    IF doctext.markup_lang = None
    THEN Ok(ListVal(<<HtmlGenericElement("code",
                        <<HtmlAttr("class", "clc-fmt-pre")>>,
                        <<PlaintextTemplate(doctext.value)>>)>>))
    ELSE IF _markup_lang(doctext) # Enum("MarkupLang", "CLEANCOPY")
    THEN Raise(ValueError("Unsupported markup language for doctext!"))
    ELSE Bind(preprocess(doc_coll, doctext.value, summary_metadata),
              LAMBDA ast_doc :
                Map(ClcRichtextBlocknodeTemplate_from_document(ast_doc,
                                                               doc_coll),
                    LAMBDA template : ListVal(<<template>>)))

should_include(metadata) ==
    IF metadata.extracted_inclusion = Bool(TRUE) THEN TRUE
    ELSE IF metadata.extracted_inclusion = Bool(FALSE) THEN FALSE
    ELSE metadata.to_document /\ ~metadata.disowned

\* the names of the model, in str order
NameOrder == <<"alpha", "beta", "gamma">>

\* sorted(names)
sorted(names) ==
    SelectSeq(NameOrder, LAMBDA name : name \in names)

\* sorted(members, key=lambda member: member.name), for members whose
\* names differ
sort_members(members) ==
    LET names == sorted({member.name : member \in members})
    IN  [k \in DOMAIN names |->
            CHOOSE member \in members : member.name = names[k]]

SignatureSummary(ordering_index, metadata) ==
    [kind |-> "SignatureSummary", ordering_index |-> ordering_index,
     metadata |-> metadata]
ParamSummary(name, index, metadata) ==
    [kind |-> "ParamSummary", name |-> name, index |-> index,
     metadata |-> metadata]

\* sorted(members, key=...) over the members in the order the frozenset
\* iterates them: ascending by key, and, the sort being stable, members of
\* equal keys in iteration order
sorted_by(members, key(_)) ==
    LET place(i) ==
            1 + Cardinality({j \in DOMAIN members :
                    \/ key(members[j]) < key(members[i])
                    \/ key(members[j]) = key(members[i]) /\ j < i})
    IN  [p \in DOMAIN members |->
            members[CHOOSE i \in DOMAIN members : place(i) = p]]

\* str order, as a rank
NameRank(name) == CHOOSE k \in DOMAIN NameOrder : NameOrder[k] = name

\* sort_members over the members in iteration order
sort_members_iterated(members) ==
    sorted_by(members, LAMBDA member : NameRank(member.name))

\* the key is member.ordering_index or 0
sort_signatures(members) ==
    sorted_by(members,
              LAMBDA member : IF member.ordering_index = None THEN 0
                              ELSE member.ordering_index.n)

sort_params(members) == sorted_by(members, LAMBDA member : member.index)

\* [... for member in sorted_members if should_include(member.metadata)]
_included(sorted_members) ==
    SelectSeq(sorted_members, LAMBDA member : should_include(member.metadata))

dunder_all_factory(names) ==
    [k \in DOMAIN names |->
        HtmlGenericElement("li", <<>>, <<PlaintextTemplate(Str(names[k]))>>)]

VariableSummaryTemplate_from_summary(summary_node, doc_coll) ==
    Map(InOrder(<<
            InOrder([k \in DOMAIN summary_node.notes |->
                        templatify_doctext(summary_node.notes[k], doc_coll,
                                           summary_node.metadata)]),
            _apply_docnotes_plugins(doc_coll, "VariableSummary",
                                    summary_node)>>),
        LAMBDA v :
            VariableSummaryTemplate(summary_node.name, <<>>,
                Extend(v.items[1].items), v.items[2].plugin_attrs,
                v.items[2].plugin_widgets))

\* get_template_cls(member).from_summary(member, doc_coll)
_member_from_summary(member, doc_coll) ==
    IF isinstance(member, {"VariableSummary"})
    THEN VariableSummaryTemplate_from_summary(member, doc_coll)
    ELSE Raise(TypeError("Unsupported summary type"))

\* the members the template shows, in the order it shows them
_included_members(summary_node) ==
    SelectSeq(sort_members(summary_node.members),
              LAMBDA member : should_include(member.metadata))

\* the statements, in the order they run: the docstring, the plugins, and
\* the loop over the members
ModuleSummaryTemplate_from_summary(summary_node, doc_coll) ==
    Map(InOrder(<<
            IF summary_node.docstring = None THEN Ok(ListVal(<<>>))
            ELSE templatify_doctext(summary_node.docstring, doc_coll,
                                    summary_node.metadata),
            _apply_docnotes_plugins(doc_coll, "ModuleSummary", summary_node),
            InOrder([k \in DOMAIN _included_members(summary_node) |->
                        _member_from_summary(
                            _included_members(summary_node)[k], doc_coll)])
            >>),
        LAMBDA v :
            ModuleSummaryTemplate(summary_node.name, v.items[1].items,
                IF summary_node.dunder_all = None THEN <<>>
                ELSE dunder_all_factory(sorted(summary_node.dunder_all.items)),
                v.items[3].items, v.items[2].plugin_attrs,
                v.items[2].plugin_widgets))

----------------------------------------------------------------------------
(* HtmlDocumentCollection (documents.py).  _documents is a dict, which     *)
(* keeps its keys in insertion order: the sequence of the stored           *)
(* documents, each under the key that is its id_.                          *)

ClcHtmlDocument(id_, src, intermediate_representation) ==
    [kind |-> "ClcHtmlDocument", id_ |-> id_, src |-> src,
     intermediate_representation |-> intermediate_representation]
DocnoteHtmlDocument(id_, src, intermediate_representation) ==
    [kind |-> "DocnoteHtmlDocument", id_ |-> id_, src |-> src,
     intermediate_representation |-> intermediate_representation]

\* tuple(doc_coll._documents): the view the documents field gives
Keys(_documents) == [k \in DOMAIN _documents |-> _documents[k].id_]

__contains__(_documents, id_) ==
    \E k \in DOMAIN _documents : _documents[k].id_ = id_

__getitem__(_documents, id_) ==
    IF __contains__(_documents, id_)
    THEN _documents[CHOOSE k \in DOMAIN _documents : _documents[k].id_ = id_]
    ELSE KeyError(id_)

get(_documents, key, default) ==
    IF __contains__(_documents, key) THEN __getitem__(_documents, key)
    ELSE default

__len__(_documents) == Len(_documents)

\* self._documents = {id_: document}: the dict rebuilt around the one key
SetItem_rebuild(_documents, id_, document) == <<document>>

\* self._documents[id_] = document
SetItem_keep_first(_documents, id_, document) ==
    IF __contains__(_documents, id_) THEN _documents
    ELSE Append(_documents, document)

SetItem(_documents, id_, document) ==
    IF __contains__(_documents, id_)
    THEN [k \in DOMAIN _documents |->
            IF _documents[k].id_ = id_ THEN document ELSE _documents[k]]
    ELSE Append(_documents, document)

DuplicateId == ValueError("Duplicate document ID!")
OneSourceOnly ==
    TypeError("Can only specify one document source when adding to a collection!")

\* add returns None or raises; _documents is the dict it leaves behind
Added(val, _documents, log) ==
    [val |-> val, _documents |-> _documents, calls |-> log]

\* self._documents[id_] = Document(..., intermediate_representation=...),
\* once the right-hand side is evaluated
_add_document(_documents, id_, template, Document(_)) ==
    IF Raised(template)
    THEN Added(template.val, _documents, template.calls)
    ELSE Added(None, SetItem(_documents, id_, Document(template.val)),
               template.calls)

\* the first statement of add: if id_ in self._documents: raise
_add_check(_documents, id_) ==
    IF __contains__(_documents, id_) THEN Raise(DuplicateId) ELSE Ok(None)

\* the right-hand side of the assignment add makes for its sources: the
\* document around the template, or the exception that ends add
_add_template(self, id_, docnote_src, clc_src) ==
    IF docnote_src # None /\ clc_src = None
    THEN Map(ModuleSummaryTemplate_from_summary(docnote_src.module_summary,
                                                self),
             LAMBDA template : DocnoteHtmlDocument(id_, docnote_src, template))
    ELSE IF clc_src # None /\ docnote_src = None
    THEN Map(ClcRichtextBlocknodeTemplate_from_document(clc_src, self),
             LAMBDA templatified : ClcHtmlDocument(id_, clc_src, templatified))
    ELSE Raise(OneSourceOnly)

\* add without its check of the identifier
add_unchecked(self, _documents, id_, docnote_src, clc_src) ==
    IF docnote_src # None /\ clc_src = None
    THEN _add_document(_documents, id_,
            ModuleSummaryTemplate_from_summary(docnote_src.module_summary,
                                               self),
            LAMBDA template : DocnoteHtmlDocument(id_, docnote_src, template))
    ELSE IF clc_src # None /\ docnote_src = None
    THEN _add_document(_documents, id_,
            ClcRichtextBlocknodeTemplate_from_document(clc_src, self),
            LAMBDA templatified : ClcHtmlDocument(id_, clc_src, templatified))
    ELSE Added(OneSourceOnly, _documents, <<>>)

\* add taking the first source it is given, whatever the other is
add_either_source(self, _documents, id_, docnote_src, clc_src) ==
    IF __contains__(_documents, id_)
    THEN Added(DuplicateId, _documents, <<>>)
    ELSE IF docnote_src # None
    THEN _add_document(_documents, id_,
            ModuleSummaryTemplate_from_summary(docnote_src.module_summary,
                                               self),
            LAMBDA template : DocnoteHtmlDocument(id_, docnote_src, template))
    ELSE IF clc_src # None
    THEN _add_document(_documents, id_,
            ClcRichtextBlocknodeTemplate_from_document(clc_src, self),
            LAMBDA templatified : ClcHtmlDocument(id_, clc_src, templatified))
    ELSE Added(None, _documents, <<>>)

\* the assignment made before its right-hand side is evaluated: a document
\* without a render tree is left behind when the templatifier raises
_add_document_first(_documents, id_, template, Document(_)) ==
    IF Raised(template)
    THEN Added(template.val, SetItem(_documents, id_, Document(None)),
               template.calls)
    ELSE Added(None, SetItem(_documents, id_, Document(template.val)),
               template.calls)

\* add storing the document before it templatifies the source
add_store_first(self, _documents, id_, docnote_src, clc_src) ==
    IF __contains__(_documents, id_)
    THEN Added(DuplicateId, _documents, <<>>)
    ELSE IF docnote_src # None /\ clc_src = None
    THEN _add_document_first(_documents, id_,
            ModuleSummaryTemplate_from_summary(docnote_src.module_summary,
                                               self),
            LAMBDA template : DocnoteHtmlDocument(id_, docnote_src, template))
    ELSE IF clc_src # None /\ docnote_src = None
    THEN _add_document_first(_documents, id_,
            ClcRichtextBlocknodeTemplate_from_document(clc_src, self),
            LAMBDA templatified : ClcHtmlDocument(id_, clc_src, templatified))
    ELSE Added(OneSourceOnly, _documents, <<>>)

add(self, _documents, id_, docnote_src, clc_src) ==
    IF __contains__(_documents, id_)
    THEN Added(DuplicateId, _documents, <<>>)
    ELSE IF docnote_src # None /\ clc_src = None
    THEN _add_document(_documents, id_,
            ModuleSummaryTemplate_from_summary(docnote_src.module_summary,
                                               self),
            LAMBDA template : DocnoteHtmlDocument(id_, docnote_src, template))
    ELSE IF clc_src # None /\ docnote_src = None
    THEN _add_document(_documents, id_,
            ClcRichtextBlocknodeTemplate_from_document(clc_src, self),
            LAMBDA templatified : ClcHtmlDocument(id_, clc_src, templatified))
    ELSE Added(OneSourceOnly, _documents, <<>>)

----------------------------------------------------------------------------
(* Spec: a collection under sequential calls of its operations.            *)

\* the plugin manager the collection is constructed with
plugin_manager ==
    [clc |-> [RichtextBlockNode |-> <<"anchors", "badge">>,
              RichtextInlineNode |-> <<"linkcheck">>],
     embeddings |-> [code |-> <<"skip", "highlight">>],
     docnotes |-> [ModuleSummary |-> <<"modtag">>]]

\* the collection, as the templatifier reads it
Collection ==
    [target_resolver |-> "links", plugin_manager |-> plugin_manager,
     transformers |-> transformers]

Ids == {"doc" \o ToString(i) : i \in 1..MaxIds}

\* the chains a collection is constructed with
CollectionChains ==
    {chain \in Chains :
        Len(chain) <= 1 /\ \A k \in DOMAIN chain :
                                chain[k] \in {"upper", "graft", "unroot"}}

MentionInfo(name) ==
    InlineNodeInfo(DataType("MentionDataType", name), None,
                   <<MetaItem("see", DataType("TagDataType", "a&b"))>>)
DocumentInfo ==
    BlockNodeInfo(None, None, None,
                  <<MetaItem("author", DataType("StrDataType", "<i>"))>>)
Body(content) == RichtextBlockNode(None, None, 0, content)

\* the texts handed to preprocess
ClcTexts ==
    {ClcText(document) :
        document \in {d \in AstDocuments :
                        /\ d.title # None
                        /\ d.root.content \in {<<TextParagraph>>,
                                                <<Embedding>>}}}
    \cup {ClcText(ClcDocument(None, DocumentInfo,
            Body(<<Paragraph(<<RichtextInlineNode(MentionInfo("bob"),
                                                  <<Str("b")>>)>>)>>)))}

\* documents a caller hands to add that no templatification survives
NoNodeinfoSource ==
    ClcDocument(None, None,
        Body(<<EmbeddingBlockNode(TitleInline, None, 1, Str("x"))>>))
NullEmbedSource ==
    ClcDocument(None, None,
        Body(<<EmbeddingBlockNode(None,
                    BlockNodeInfo(None, None, None, <<>>), 1, None)>>))
UnknownFormattingSource ==
    ClcDocument(None, None,
        Body(<<RichtextBlockNode(TitleInline,
                    BlockNodeInfo(None, None,
                        Enum("BlockFormatting", "OTHER"), <<>>),
                    1, <<>>)>>))
InvalidChildSource ==
    ClcDocument(None, None, Body(<<Annotation(Str("x"))>>))
MissingTargetSource ==
    ClcDocument(None, None,
        Body(<<Paragraph(<<RichtextInlineNode(MentionInfo("missing"),
                                              <<Str("b")>>)>>)>>))
BrokenLinkSource ==
    ClcDocument(TitleInline, None,
        Body(<<Paragraph(<<RichtextInlineNode(
                    InlineNodeInfo(DataType("StrDataType", "broken"), None,
                                   <<>>),
                    <<Str("b")>>)>>)>>))
FailingSources ==
    {NoNodeinfoSource, NullEmbedSource, UnknownFormattingSource,
     InvalidChildSource, MissingTargetSource, BrokenLinkSource}

Included == SummaryMetadata(None, TRUE, FALSE)
Excluded == SummaryMetadata(Bool(FALSE), TRUE, FALSE)
PlainText == ClcText(ClcDocument(None, None, Body(<<>>)))
MarkupText == ClcText(ClcDocument(None, None, Body(<<TextParagraph>>)))

PlainModule ==
    SummaryTreeNode(ModuleSummary("alpha", DocText(PlainText, None), None,
                                  {}, Included))
MarkupModule ==
    SummaryTreeNode(ModuleSummary("beta",
        DocText(MarkupText, Enum("MarkupLang", "CLEANCOPY")),
        FrozenSet({"gamma", "alpha"}),
        {VariableSummary("gamma", <<DocText(PlainText, None)>>, Included),
         VariableSummary("alpha", <<>>, Excluded)},
        Included))
RstModule ==
    SummaryTreeNode(ModuleSummary("gamma", DocText(PlainText, Str("rst")),
                                  None, {}, Included))
DocnoteSources == {PlainModule, MarkupModule, RstModule}

\* the documents a caller has at hand to add: the ones above, and the
\* document the preprocess call just before returned
ClcSources ==
    FailingSources
    \cup (IF op.name = "preprocess" /\ ~IsException(outcome.val)
          THEN {outcome.val} ELSE {})

\* the (docnote_src, clc_src) pairs add is called with: one source, none,
\* or both
AddSources ==
    ({None} \X (ClcSources \cup {None}))
    \cup (DocnoteSources \X {None})
    \cup ({PlainModule, MarkupModule} \X (ClcSources \ FailingSources))
    \cup {<<RstModule, InvalidChildSource>>}

Init ==
    /\ transformers \in CollectionChains
    /\ documents = <<>>
    /\ op = NoCall
    /\ outcome = Pending
    /\ calls = <<>>

\* the call returned (or raised) r
Returns(r) ==
    /\ outcome' = [val |-> r.val, built |-> r.built]
    /\ calls' = r.calls

\* add returned (or raised) and left its dict behind
AddReturns(r) ==
    /\ documents' = r._documents
    /\ outcome' = [val |-> r.val, built |-> 0]
    /\ calls' = r.calls

Preprocess(clc_text, context) ==
    /\ op.name # "apply_transformers"
    /\ Returns(preprocess(Collection, clc_text, context))
    /\ op' = [name |-> "preprocess", clc_text |-> clc_text,
              context |-> context]
    /\ UNCHANGED <<transformers, documents>>

Add(id_, docnote_src, clc_src) ==
    /\ op.name # "apply_transformers"
    /\ AddReturns(add(Collection, documents, id_, docnote_src, clc_src))
    /\ op' = [name |-> "add", id_ |-> id_, docnote_src |-> docnote_src,
              clc_src |-> clc_src]
    /\ UNCHANGED transformers

Get(key) ==
    /\ op.name # "apply_transformers"
    /\ outcome' = [val |-> get(documents, key, None), built |-> 0]
    /\ calls' = <<>>
    /\ op' = [name |-> "get", key |-> key]
    /\ UNCHANGED <<transformers, documents>>

Contains(id_) ==
    /\ op.name # "apply_transformers"
    /\ outcome' = [val |-> Bool(__contains__(documents, id_)), built |-> 0]
    /\ calls' = <<>>
    /\ op' = [name |-> "contains", id_ |-> id_]
    /\ UNCHANGED <<transformers, documents>>

Iter ==
    /\ op.name # "apply_transformers"
    /\ outcome' = [val |-> ListVal(Keys(documents)), built |-> 0]
    /\ calls' = <<>>
    /\ op' = [name |-> "iter"]
    /\ UNCHANGED <<transformers, documents>>

Length ==
    /\ op.name # "apply_transformers"
    /\ outcome' = [val |-> IntVal(__len__(documents)), built |-> 0]
    /\ calls' = <<>>
    /\ op' = [name |-> "len"]
    /\ UNCHANGED <<transformers, documents>>

Next ==
    \/ \E clc_text \in ClcTexts : Preprocess(clc_text, None)
    \/ \E id_ \in Ids, src \in AddSources : Add(id_, src[1], src[2])
    \/ \E key \in Ids : Get(key)
    \/ \E id_ \in Ids : Contains(id_)
    \/ Iter
    \/ Length

Spec == Init /\ [][Next]_vars

----------------------------------------------------------------------------
(* ConcurrentSpec: two threads call add on one collection with no lock     *)
(* around the calls.  Each thread runs the statements of add in order; a   *)
(* thread switch may fall between the check of the identifier, the         *)
(* construction of the document and the assignment into the dict.          *)

Threads == 1..2

\* the arguments of the add calls
ConcurrentSources ==
    {[docnote_src |-> None, clc_src |-> ClcDocument(None, None, Body(<<>>))],
     [docnote_src |-> None,
      clc_src |-> ClcDocument(None, None, Body(<<TextParagraph>>))],
     [docnote_src |-> None, clc_src |-> MissingTargetSource],
     [docnote_src |-> PlainModule, clc_src |-> None],
     [docnote_src |-> PlainModule,
      clc_src |-> ClcDocument(None, None, Body(<<>>))],
     [docnote_src |-> None, clc_src |-> None]}

ConcurrentInit ==
    /\ transformers = <<>>
    /\ documents = <<>>
    /\ op \in {[name |-> "add || add", id_ |-> id_, src |-> src] :
                    id_ \in [Threads -> Ids],
                    src \in [Threads -> ConcurrentSources]}
    /\ outcome = [pc |-> [t \in Threads |-> "check"],
                  val |-> [t \in Threads |-> Pending],
                  document |-> [t \in Threads |-> None],
                  stored |-> <<>>]
    /\ calls = <<>>

\* if id_ in self._documents: raise ValueError
ThreadCheck ==
    \E t \in Threads :
        /\ op.name = "add || add"
        /\ outcome.pc[t] = "check"
        /\ LET r == _add_check(documents, op.id_[t])
           IN  outcome' =
                 IF Raised(r)
                 THEN [outcome EXCEPT !.pc[t] = "done", !.val[t] = r.val]
                 ELSE [outcome EXCEPT !.pc[t] = "build"]
        /\ UNCHANGED <<transformers, documents, op, calls>>

\* the source checks and the right-hand side of the assignment
ThreadBuild ==
    \E t \in Threads :
        /\ op.name = "add || add"
        /\ outcome.pc[t] = "build"
        /\ LET r == _add_template(Collection, op.id_[t],
                                  op.src[t].docnote_src, op.src[t].clc_src)
           IN  /\ outcome' =
                    IF Raised(r)
                    THEN [outcome EXCEPT !.pc[t] = "done", !.val[t] = r.val]
                    ELSE [outcome EXCEPT !.pc[t] = "store",
                                         !.document[t] = r.val]
               /\ calls' = calls \o r.calls
        /\ UNCHANGED <<transformers, documents, op>>

\* self._documents[id_] = document, and the return
ThreadStore ==
    \E t \in Threads :
        /\ op.name = "add || add"
        /\ outcome.pc[t] = "store"
        /\ documents' = SetItem(documents, op.id_[t], outcome.document[t])
        /\ outcome' = [outcome EXCEPT !.pc[t] = "done", !.val[t] = None,
                                      !.stored = Append(@, t)]
        /\ UNCHANGED <<transformers, op, calls>>

ConcurrentNext ==
    \/ ThreadCheck
    \/ ThreadBuild
    \/ ThreadStore

ConcurrentSpec == ConcurrentInit /\ [][ConcurrentNext]_vars

----------------------------------------------------------------------------
(* TemplateSpec: the templatifier's functions, each as a function of its   *)
(* arguments and of the plugins the collection's plugin manager holds.     *)

\* a collection constructed with the plugin manager of the call
CollectionWith(manager) ==
    [target_resolver |-> "links", plugin_manager |-> manager,
     transformers |-> <<>>]

EmbeddingsPluginPool == {"skip", "highlight", "bare", "empty", "tagger"}

\* the embedding block nodes templatified: with and without a title and a
\* content, of an embedding type that has plugins and of one that has none
EmbeddingNodes ==
    {EmbeddingBlockNode(title,
        BlockNodeInfo(DataType("StrDataType", embed), None, None, <<>>),
        1, content) :
        title \in {None, TitleInline}, embed \in {"code", "data"},
        content \in {None, Str("x = 1")}}
    \cup
    {EmbeddingBlockNode(title, info, 1, Str("x = 1")) :
        title \in {None, TitleInline},
        info \in {None, BlockNodeInfo(None, None, None, <<>>)}}

\* the plugin managers of the calls: embeddings plugins under "code" only
EmbeddingManagers ==
    {[clc |-> [EmbeddingBlockNode |-> clc_plugins],
      embeddings |-> [code |-> embeddings_plugins],
      docnotes |-> <<>>] :
        clc_plugins \in {<<>>, <<"anchors">>},
        embeddings_plugins \in SeqsUpTo(EmbeddingsPluginPool, MaxPlugins)}

ClcPluginPool == {"skip", "anchors", "badge", "both", "bare"}
DocnotesPluginPool == {"skip", "modtag", "source", "bare"}

\* the plugin managers of the _apply_plugins calls: plugins under the
\* inline node type, one plugin under the block node type, and docnotes
\* plugins under the module summary type
AdditiveManagers ==
    {[clc |-> [RichtextInlineNode |-> clc_plugins,
               RichtextBlockNode |-> <<"badge">>],
      embeddings |-> <<>>,
      docnotes |-> <<>>] :
        clc_plugins \in SeqsUpTo(ClcPluginPool, MaxPlugins)}
    \cup
    {[clc |-> <<>>,
      embeddings |-> <<>>,
      docnotes |-> [ModuleSummary |-> docnotes_plugins,
                    VariableSummary |-> <<"source">>]] :
        docnotes_plugins \in SeqsUpTo(DocnotesPluginPool, MaxPlugins)}

\* a member of the semantic-modifier enums, with its raw value
SemanticModifier(name, value) ==
    [kind |-> "SemanticModifier", name |-> name, value |-> value]

\* the values the spec fields of the info records take
TargetValues ==
    {None, DataType("StrDataType", "http://e.example"),
     DataType("StrDataType", "a&b"), DataType("MentionDataType", "bob"),
     DataType("ReferenceDataType", "missing")}
SemanticValues == {None, SemanticModifier("ASIDE", "aside")}

\* info records, inline and block, over the values of their spec fields
WrapperInfos ==
    {[InlineNodeInfo(target, formatting, <<>>)
        EXCEPT !.semantic_modifiers = semantic_modifiers] :
        target \in TargetValues, semantic_modifiers \in SemanticValues,
        formatting \in {None} \cup
            {Enum("InlineFormatting", name) :
                name \in {"STRONG", "PRE", "EMPHASIS", "OTHER"}}}
    \cup
    {[BlockNodeInfo(None, target, formatting, <<>>)
        EXCEPT !.semantic_modifiers = semantic_modifiers] :
        target \in TargetValues, semantic_modifiers \in SemanticValues,
        formatting \in {None} \cup
            {Enum("BlockFormatting", name) : name \in {"QUOTE", "OTHER"}}}

\* the wrappers the derivations make, and the lists of them
WrapperPool ==
    {NodeContentTagWrapper("aside", <<>>),
     NodeContentTagWrapper("a", <<HtmlAttr("href", "http://e.example")>>),
     NodeContentTagWrapper("code", <<HtmlAttr("class", "clc-fmt-pre"),
                                     HtmlAttr("data-x", "1")>>),
     NodeContentTagWrapper("strong", <<>>)}
WrapperLists == SeqsUpTo(WrapperPool, MaxWrappers)

\* the declaration orders of an enum of the given members
Rotated(members, k) ==
    [i \in DOMAIN members |-> members[((i + k - 1) % Len(members)) + 1]]
MagicOrders(members) ==
    {Rotated(members, k) : k \in {0, 3}}
    \cup {reversed(Rotated(members, k)) : k \in {0, 3}}

\* the members of the two enums: those the normalisers name, and alt_text,
\* a member like any other whose name holds an underscore
BlockMagicOrders ==
    MagicOrders(<<"alt_text", "embed", "fallback", "formatting",
                  "is_doc_metadata", "semantic_modifiers", "style_modifiers",
                  "target">>)
InlineMagicOrders ==
    MagicOrders(<<"alt_text", "formatting", "semantic_modifiers",
                  "style_modifiers", "sugared", "target">>)

ScalarTargets ==
    {None, DataType("StrDataType", "a&b"), DataType("TagDataType", "a&b"),
     DataType("ReferenceDataType", "missing")}
StyleValues == {None, DataType("StrDataType", "say \"x\"")}
AltTexts ==
    {None, DataType("StrDataType", "<i>"), DataType("MentionDataType", "bob")}

\* info records over the values of every field the enums name
SpecInfos ==
    {[BlockNodeInfo(embed, target, formatting, <<>>)
        EXCEPT !.semantic_modifiers = semantic_modifiers,
               !.style_modifiers = style_modifiers,
               !.fallback = fallback] @@ [alt_text |-> alt_text] :
        embed \in {None, DataType("StrDataType", "code")},
        target \in ScalarTargets,
        formatting \in {None, Enum("BlockFormatting", "QUOTE")},
        fallback \in {None, Enum("BlockFallback", "PLAINTEXT")},
        semantic_modifiers \in SemanticValues,
        style_modifiers \in StyleValues,
        alt_text \in AltTexts}
    \cup
    {[InlineNodeInfo(target, formatting, <<>>)
        EXCEPT !.semantic_modifiers = semantic_modifiers,
               !.style_modifiers = style_modifiers,
               !.sugared = sugared] @@ [alt_text |-> alt_text] :
        target \in ScalarTargets,
        formatting \in {None, Enum("InlineFormatting", "STRONG")},
        sugared \in {None, DataType("BoolDataType", "True")},
        semantic_modifiers \in SemanticValues,
        style_modifiers \in StyleValues,
        alt_text \in AltTexts}

\* the entries of the metadata maps, and the maps: a dict, in its
\* iteration order, no key twice
MetaItems ==
    {MetaItem("zeta", DataType("NullDataType", "None")),
     MetaItem("author", DataType("StrDataType", "<i>")),
     MetaItem("n", DataType("IntDataType", "5")),
     MetaItem("see", DataType("TagDataType", "a&b")),
     MetaItem("ref", DataType("MentionDataType", "missing"))}
MetadataMaps ==
    {metadata \in SeqsUpTo(MetaItems, MaxMeta) :
        \A i, j \in DOMAIN metadata :
            metadata[i].key = metadata[j].key => i = j}

\* the depths of the headings made: around the range of HTML, and far off
Depths == (-MaxDepth..MaxDepth) \cup {99}

\* the info records of the documents and of their roots: none, one with
\* metadata entries, one with a class and no entry, one whose entry the
\* resolver does not know
ClassOnlyInfo ==
    [BlockNodeInfo(None, None, None, <<>>)
        EXCEPT !.style_modifiers = DataType("StrDataType", "wide")]
UnresolvedInfo ==
    BlockNodeInfo(None, None, None,
                  <<MetaItem("ref", DataType("MentionDataType", "missing"))>>)
DocumentInfos == {None, DocumentInfo, ClassOnlyInfo, UnresolvedInfo}

\* the root block nodes, and the nodes from_document is given: a root
\* wrapped in a Document, or the root itself
RootNodes ==
    {RichtextBlockNode(title, info, 0, content) :
        title \in {None, TitleInline},
        info \in {None, QuoteInfo, ClassOnlyInfo},
        content \in {<<>>, <<TextParagraph>>, <<Embedding>>}}
DocumentNodes ==
    {ClcDocument(title, info, root) :
        title \in {None, RichtextInlineNode(None, <<Str("doc")>>)},
        info \in DocumentInfos, root \in RootNodes}
    \cup RootNodes

\* the inclusion metadata of the members: included by the explicit flag
\* against the other two, excluded by it against them, and left to them
MemberMetadatas ==
    {SummaryMetadata(Bool(TRUE), FALSE, TRUE),
     SummaryMetadata(Bool(FALSE), TRUE, FALSE),
     SummaryMetadata(None, TRUE, FALSE),
     SummaryMetadata(None, TRUE, TRUE),
     SummaryMetadata(None, FALSE, FALSE)}

\* the frozensets of members, each as the sequence its iteration yields:
\* no member twice; the names of a namespace differ, the indexes of the
\* params of a signature differ, and so do the ordering indexes that are
\* set, while any number of signatures may have none
IterationsOf(pool) ==
    {members \in SeqsUpTo(pool, MaxMembers) :
        \A i, j \in DOMAIN members : i # j => members[i] # members[j]}
NamespaceMembers ==
    {members \in
        IterationsOf({VariableSummary(name, <<>>, metadata) :
            name \in Range(NameOrder),
            metadata \in {Included, Excluded}}) :
        \A i, j \in DOMAIN members :
            i # j => members[i].name # members[j].name}
Signatures ==
    {members \in
        IterationsOf({SignatureSummary(ordering_index, metadata) :
            ordering_index \in {None, IntVal(0), IntVal(1)},
            metadata \in {Included, Excluded,
                          SummaryMetadata(Bool(TRUE), FALSE, TRUE)}}) :
        \A i, j \in DOMAIN members :
            i # j /\ members[i].ordering_index # None
                => members[i].ordering_index # members[j].ordering_index}
Params ==
    {members \in
        IterationsOf({ParamSummary("x", index, metadata) :
            index \in 0..2, metadata \in MemberMetadatas}) :
        \A i, j \in DOMAIN members :
            i # j => members[i].index # members[j].index}

TemplateCalls ==
    {[name |-> "ModuleSummaryTemplate.sort_members", members |-> members] :
        members \in NamespaceMembers}
    \cup
    {[name |-> "CallableSummaryTemplate.sort_signatures",
      members |-> members] : members \in Signatures}
    \cup
    {[name |-> "SignatureSummaryTemplate.sort_params",
      members |-> members] : members \in Params}
    \cup
    {[name |-> "ClcRichtextBlocknodeTemplate.from_document", node |-> node,
      plugin_manager |-> plugin_manager] : node \in DocumentNodes}
    \cup
    {[name |-> "heading_factory", depth |-> depth, body |-> body] :
        depth \in Depths,
        body \in {<<>>, <<PlaintextTemplate(Str("a"))>>}}
    \cup
    {[name |-> "ClcMetadataTemplate.from_ast_node",
      node |-> InlineNodeInfo(None, None, metadata)] :
        metadata \in MetadataMaps}
    \cup
    {[name |-> "_transform_spec_metadatas", value |-> value, magic |-> magic] :
        value \in {info \in SpecInfos : info.kind = "BlockNodeInfo"},
        magic \in BlockMagicOrders}
    \cup
    {[name |-> "_transform_spec_metadatas", value |-> value, magic |-> magic] :
        value \in {info \in SpecInfos : info.kind = "InlineNodeInfo"},
        magic \in InlineMagicOrders}
    \cup
    {[name |-> "wrap_node", wrappers |-> wrappers] :
        wrappers \in WrapperLists}
    \cup
    {[name |-> "_derive_tag_wrappers", info |-> info] : info \in WrapperInfos}
    \cup
    {[name |-> "ClcEmbeddingBlocknodeTemplate.from_ast_node", node |-> node,
      plugin_manager |-> manager] :
        node \in EmbeddingNodes, manager \in EmbeddingManagers}
    \cup
    {[name |-> "clc._apply_plugins", node_type |-> node_type, node |-> node,
      plugin_manager |-> manager] :
        node_type \in {"RichtextInlineNode", "RichtextBlockNode",
                       "EmbeddingBlockNode"},
        node \in {TitleInline, RichtextInlineNode(LinkInfo, <<>>)},
        manager \in {m \in AdditiveManagers : m.docnotes = <<>>}}
    \cup
    {[name |-> "docnotes._apply_plugins", summary_type |-> summary_type,
      summary |-> summary, plugin_manager |-> manager] :
        summary_type \in {"ModuleSummary", "VariableSummary", "ClassSummary"},
        summary \in {PlainModule.module_summary, MarkupModule.module_summary},
        manager \in {m \in AdditiveManagers : m.clc = <<>>}}

TemplateInit ==
    /\ transformers = <<>>
    /\ documents = <<>>
    /\ op \in TemplateCalls
    /\ outcome = Pending
    /\ calls = <<>>

EmbeddingFromAstNode ==
    /\ op.name = "ClcEmbeddingBlocknodeTemplate.from_ast_node"
    /\ outcome = Pending
    /\ Returns(ClcEmbeddingBlocknodeTemplate_from_ast_node(
                    op.node, CollectionWith(op.plugin_manager)))
    /\ UNCHANGED <<transformers, documents, op>>

ApplyPlugins ==
    /\ op.name = "clc._apply_plugins"
    /\ outcome = Pending
    /\ Returns(_apply_plugins(CollectionWith(op.plugin_manager),
                              op.node_type, op.node))
    /\ UNCHANGED <<transformers, documents, op>>

ApplyDocnotesPlugins ==
    /\ op.name = "docnotes._apply_plugins"
    /\ outcome = Pending
    /\ Returns(_apply_docnotes_plugins(CollectionWith(op.plugin_manager),
                                       op.summary_type, op.summary))
    /\ UNCHANGED <<transformers, documents, op>>

\* _derive_inlinenode_tag_wrappers or _derive_blocknode_tag_wrappers, as
\* the templates call them: by the kind of node the info belongs to
DeriveTagWrappers ==
    /\ op.name = "_derive_tag_wrappers"
    /\ outcome = Pending
    /\ Returns(IF op.info.kind = "InlineNodeInfo"
               THEN _derive_inlinenode_tag_wrappers(op.info,
                                                    CollectionWith(<<>>))
               ELSE _derive_blocknode_tag_wrappers(op.info,
                                                   CollectionWith(<<>>)))
    /\ UNCHANGED <<transformers, documents, op>>

\* {@wrap_node_start(data.tag_wrappers) ... @wrap_node_end(data.tag_wrappers)}
\* of the node templates: the two calls around the header and the body
WrapNode ==
    /\ op.name = "wrap_node"
    /\ outcome = Pending
    /\ outcome' = [val |-> [kind |-> "tuple",
                            start |-> wrap_node_start(op.wrappers),
                            end |-> wrap_node_end(op.wrappers)],
                   built |-> 0]
    /\ calls' = <<>>
    /\ UNCHANGED <<transformers, documents, op>>

\* _transform_spec_metadatas_block or _transform_spec_metadatas_inline, as
\* the templates call them: by the kind of node the info belongs to
TransformSpecMetadatas ==
    /\ op.name = "_transform_spec_metadatas"
    /\ outcome = Pending
    /\ Returns(IF op.value.kind = "BlockNodeInfo"
               THEN _transform_spec_metadatas_block(op.value,
                                                    CollectionWith(<<>>))
               ELSE _transform_spec_metadatas_inline(op.value,
                                                     CollectionWith(<<>>)))
    /\ UNCHANGED <<transformers, documents, op>>

MetadataFromAstNode ==
    /\ op.name = "ClcMetadataTemplate.from_ast_node"
    /\ outcome = Pending
    /\ Returns(ClcMetadataTemplate_from_ast_node(op.node,
                                                 CollectionWith(<<>>)))
    /\ UNCHANGED <<transformers, documents, op>>

HeadingFactory ==
    /\ op.name = "heading_factory"
    /\ outcome = Pending
    /\ outcome' = [val |-> heading_factory(op.depth, op.body), built |-> 0]
    /\ calls' = <<>>
    /\ UNCHANGED <<transformers, documents, op>>

\* the members a summary template shows: sorted, then filtered
SortMembers ==
    /\ op.name = "ModuleSummaryTemplate.sort_members"
    /\ outcome = Pending
    /\ Returns(Ok(ListVal(_included(sort_members_iterated(op.members)))))
    /\ UNCHANGED <<transformers, documents, op>>

SortSignatures ==
    /\ op.name = "CallableSummaryTemplate.sort_signatures"
    /\ outcome = Pending
    /\ Returns(Ok(ListVal(_included(sort_signatures(op.members)))))
    /\ UNCHANGED <<transformers, documents, op>>

SortParams ==
    /\ op.name = "SignatureSummaryTemplate.sort_params"
    /\ outcome = Pending
    /\ Returns(Ok(ListVal(_included(sort_params(op.members)))))
    /\ UNCHANGED <<transformers, documents, op>>

FromDocument ==
    /\ op.name = "ClcRichtextBlocknodeTemplate.from_document"
    /\ outcome = Pending
    /\ Returns(ClcRichtextBlocknodeTemplate_from_document(
                    op.node, CollectionWith(op.plugin_manager)))
    /\ UNCHANGED <<transformers, documents, op>>

TemplateNext ==
    \/ SortMembers
    \/ SortSignatures
    \/ SortParams
    \/ FromDocument
    \/ HeadingFactory
    \/ MetadataFromAstNode
    \/ TransformSpecMetadatas
    \/ WrapNode
    \/ DeriveTagWrappers
    \/ EmbeddingFromAstNode
    \/ ApplyPlugins
    \/ ApplyDocnotesPlugins

TemplateSpec == TemplateInit /\ [][TemplateNext]_vars

----------------------------------------------------------------------------
(* Vocabulary of the properties of the pipeline. *)

XformDone == op.name = "apply_transformers" /\ outcome # Pending
XformReturned == XformDone /\ ~IsException(outcome.val)

\* the structural child of a node at position k (0: title, k >= 1: item k)
Child(node, k) ==
    IF k = 0 THEN node.title
    ELSE IF node.kind = "Document" THEN node.root
    ELSE node.content[k]

RECURSIVE NodeAt(_, _)
NodeAt(node, path) ==
    IF path = <<>> THEN node ELSE NodeAt(Child(node, Head(path)), Tail(path))

Parent(path) == SubSeq(path, 1, Len(path) - 1)
Last(q) == q[Len(q)]

\* the variants a parent of class cls accepts at child position k
Expected(cls, k) ==
    IF k = 0 THEN {"NoneType", "RichtextInlineNode"}
    ELSE CASE cls = "Document" -> {"RichtextBlockNode"}
           [] cls = "RichtextBlockNode" -> {"Paragraph"} \cup BlockNode
           [] cls = "Paragraph" -> {"RichtextInlineNode", "List_", "Annotation"}
           [] cls = "List_" -> {"ListItem"}
           [] cls = "ListItem" -> {"Paragraph"}
           [] cls = "RichtextInlineNode" -> {"str", "RichtextInlineNode"}
           [] OTHER -> {}

\* the positions of the structural children of a node
ChildPositions(node) ==
    CASE node.kind = "Document" -> {0, 1}
      [] node.kind = "RichtextBlockNode" -> {0} \cup DOMAIN node.content
      [] node.kind = "EmbeddingBlockNode" -> {0}
      [] node.kind \in {"Paragraph", "List_", "ListItem", "RichtextInlineNode"} ->
            DOMAIN node.content
      [] OTHER -> {}

\* a value all of whose descendants are of a variant their parent accepts
RECURSIVE WellFormed(_)
WellFormed(node) ==
    \A k \in ChildPositions(node) :
        /\ Child(node, k).kind \in Expected(node.kind, k)
        /\ WellFormed(Child(node, k))

\* the indices of the calls of the log made on the original node at path p
CallsAt(p) == {i \in DOMAIN calls : calls[i].path = p}

IsProperPrefix(p, q) == Len(p) < Len(q) /\ SubSeq(q, 1, Len(p)) = p

\* p comes before q in a post-order walk that takes the title before the items
PostOrderBefore(p, q) ==
    \/ IsProperPrefix(q, p)
    \/ \E k \in 1..Len(p) :
            /\ k <= Len(q)
            /\ SubSeq(p, 1, k - 1) = SubSeq(q, 1, k - 1)
            /\ p[k] < q[k]

----------------------------------------------------------------------------
(* Properties of the transform pipeline, checked under XformSpec. *)

\* C1: with an empty chain apply_transformers returns the input document
\* itself: no transformer is invoked, no node is constructed and no error is
\* raised, for every document and context.
C1_EmptyChainIsIdentity ==
    (XformDone /\ transformers = <<>>) =>
        /\ outcome.val = op.document
        /\ outcome.built = 0
        /\ calls = <<>>

C1_Witness ==
    /\ XformDone
    /\ transformers = <<>>
    /\ op.context # None
    /\ Len(op.document.root.content) = MaxBody

\* C2: at every node the chain is applied in its registered order: the i-th
\* call on a node invokes transformers[i] with the shared context, the first
\* call directly follows the calls on the node's descendants, each later
\* call directly follows the call before it and receives its output, every
\* chain runs to its end, and the value returned is the output of the last
\* transformer on the root.
C2_ChainOrder ==
    XformDone =>
        /\ \A i \in DOMAIN calls :
              LET c == calls[i]
              IN  /\ c.idx \in 1..Len(transformers)
                  /\ c.transformer = transformers[c.idx]
                  /\ c.context = op.context
                  /\ c.idx > 1 =>
                        /\ i > 1
                        /\ calls[i - 1].path = c.path
                        /\ calls[i - 1].idx = c.idx - 1
                        /\ c.arg = calls[i - 1].out
                  /\ (c.idx = 1 /\ i > 1) =>
                        /\ calls[i - 1].path # c.path
                        /\ calls[i - 1].idx = Len(transformers)
                  /\ c.idx < Len(transformers) => i < Len(calls)
        /\ (XformReturned /\ transformers # <<>>) =>
              /\ calls # <<>>
              /\ Last(calls).path = <<>>
              /\ Last(calls).idx = Len(transformers)
              /\ outcome.val = Last(calls).out

Reverse(q) == [i \in 1..Len(q) |-> q[Len(q) + 1 - i]]

\* two transformers that do not commute were applied, and the result is not
\* the one the swapped chain gives
C2_Witness ==
    /\ XformReturned
    /\ Len(transformers) = 2
    /\ LET swapped ==
               apply_transformers(op.document, Reverse(transformers), op.context)
       IN  ~IsException(swapped.val) /\ swapped.val # outcome.val

\* C3: the pipeline is post-order: the calls of the log are in the order of
\* a post-order walk of the original tree that takes the title before the
\* items and the items from left to right, and the node handed to the first
\* transformer of a node holds, at every child position, the output of the
\* last transformer on that child (the child itself where the pipeline
\* invokes no transformer: literal text and an absent title).
C3_PostOrder ==
    XformDone =>
        /\ \A i, j \in DOMAIN calls :
              (i < j /\ calls[i].path # calls[j].path) =>
                    PostOrderBefore(calls[i].path, calls[j].path)
        /\ \A i \in DOMAIN calls :
              LET c == calls[i]
              IN  c.idx = 1 =>
                    /\ c.arg.kind = c.orig.kind
                    /\ ChildPositions(c.arg) = ChildPositions(c.orig)
                    /\ \A k \in ChildPositions(c.orig) :
                          LET sub == CallsAt(c.path \o <<k>>)
                          IN  IF sub = {}
                              THEN /\ Child(c.orig, k).kind \in {"str", "NoneType"}
                                   /\ Child(c.arg, k) = Child(c.orig, k)
                              ELSE /\ \A m \in sub : m < i
                                   /\ Child(c.arg, k) =
                                        calls[CHOOSE m \in sub :
                                                \A n \in sub : n <= m].out

\* a paragraph whose inline item was rewritten before the paragraph's own
\* transformers ran
C3_Witness ==
    /\ XformReturned
    /\ \E i, j \in DOMAIN calls :
          /\ i < j
          /\ calls[j].idx = 1
          /\ calls[j].orig.kind = "Paragraph"
          /\ calls[i].path = calls[j].path \o <<1>>
          /\ calls[i].out # calls[i].arg
          /\ calls[j].arg.content[1] # calls[j].orig.content[1]

\* the value a call produced is of a variant the parent of its node accepts
\* at the node's position
Compatible(c) ==
    c.out.kind \in
        Expected(NodeAt(op.document, Parent(c.path)).kind, Last(c.path))

\* C4 as stated: whenever any transformer of the chain returns, for a child
\* position, a value of an incompatible variant, apply_transformers fails.
C4_EveryIncompatibleReturnFails ==
    XformDone =>
        \A i \in DOMAIN calls :
            (calls[i].path # <<>> /\ ~Compatible(calls[i])) =>
                outcome.val = InvalidResult

\* C4 as amended: the variant of a child is checked once, on the value the
\* whole chain produced for it: whenever the last transformer of the chain
\* returns, for a child position, a value of an incompatible variant,
\* apply_transformers fails with a TypeError.
C4_IncompatibleChainResultFails ==
    XformDone =>
        \A i \in DOMAIN calls :
            (/\ calls[i].path # <<>>
             /\ calls[i].idx = Len(transformers)
             /\ ~Compatible(calls[i])) =>
                outcome.val = InvalidResult

\* the last of two transformers turned a compatible value into an
\* incompatible one, and the call failed
C4_Witness ==
    /\ XformDone
    /\ outcome.val = InvalidResult
    /\ \E i \in DOMAIN calls :
          /\ calls[i].path # <<>>
          /\ calls[i].idx = 2
          /\ calls[i].idx = Len(transformers)
          /\ Compatible(calls[i - 1])
          /\ ~Compatible(calls[i])

TransformersPreserveWellFormed ==
    \A i \in DOMAIN calls : WellFormed(calls[i].arg) => WellFormed(calls[i].out)

RootChainRan ==
    /\ calls # <<>>
    /\ Last(calls).path = <<>>
    /\ Last(calls).idx = Len(transformers)

\* C6: with a non-empty chain, when the value the last transformer produced
\* at the document root is not a Document, apply_transformers raises a
\* TypeError and returns nothing; otherwise it returns exactly that value.
C6_RootMustBeDocument ==
    (XformDone /\ transformers # <<>> /\ RootChainRan) =>
        IF Last(calls).out.kind = "Document"
        THEN outcome.val = Last(calls).out
        ELSE outcome.val = InvalidResult

C6_Witness ==
    /\ XformDone
    /\ RootChainRan
    /\ Last(calls).out.kind = "RichtextBlockNode"
    /\ outcome.val = InvalidResult

\* the fields of a node that the pipeline does not recurse into
Frame(node) ==
    CASE node.kind = "Document" -> <<node.info>>
      [] node.kind = "RichtextBlockNode" -> <<node.info, node.depth>>
      [] node.kind = "EmbeddingBlockNode" ->
            <<node.info, node.depth, node.content>>
      [] node.kind = "List_" -> <<node.type_>>
      [] node.kind = "ListItem" -> <<node.index>>
      [] node.kind = "RichtextInlineNode" -> <<node.info>>
      [] node.kind = "Annotation" -> <<node.content>>
      [] OTHER -> <<>>

\* C7: reconstruction changes only the recursed children: the node handed
\* to the first transformer is of the class of the original node and has its
\* info record, depth, list type, list-item index, embedding content and
\* annotation content; and a chain of identity transformers returns a
\* document structurally equal to the input.
C7_ReconstructionFrame ==
    XformDone =>
        /\ \A i \in DOMAIN calls :
              calls[i].idx = 1 =>
                /\ calls[i].arg.kind = calls[i].orig.kind
                /\ Frame(calls[i].arg) = Frame(calls[i].orig)
        /\ (/\ transformers # <<>>
            /\ \A k \in DOMAIN transformers : transformers[k] = "ident") =>
                outcome.val = op.document

C7_Witness ==
    /\ XformReturned
    /\ transformers = <<"ident", "ident">>
    /\ op.document.title # None
    /\ op.document.root.content = <<Embedding, ListParagraph>>
    /\ outcome.built > 0

----------------------------------------------------------------------------
(* The document collection. *)

\* the step is a call of add
IsAdd == op'.name = "add"

\* the step leaves the collection as it was: same keys in the same order,
\* same size, and every key gives the document it gave
CollectionUnchanged ==
    /\ documents' = documents
    /\ Keys(documents') = Keys(documents)
    /\ __len__(documents') = __len__(documents)
    /\ \A key \in Ids : get(documents', key, None) = get(documents, key, None)

(* C8: add(id, ...) on an identifier already present in the collection    *)
(* raises the duplicate-identifier error before any templatification and   *)
(* before any call of a plugin or of the resolver, and leaves the          *)
(* collection unchanged: same key set, same size, and get(id) still        *)
(* returns the first document.                                             *)
C8_DuplicateRejected ==
    [][(IsAdd /\ __contains__(documents, op'.id_))
        => /\ outcome'.val = DuplicateId
           /\ calls' = <<>>
           /\ CollectionUnchanged
           /\ get(documents', op'.id_, None) = __getitem__(documents, op'.id_)
      ]_vars

\* add was called with one source, a document that templatifies, for an
\* identifier that holds a document made of another source; it raised
C8_Witness ==
    /\ op.name = "add"
    /\ __contains__(documents, op.id_)
    /\ outcome.val = DuplicateId
    /\ op.docnote_src = None
    /\ op.clc_src \notin FailingSources \cup {None}
    /\ __getitem__(documents, op.id_).src # op.clc_src

\* the document add stores for the one source it is given
DocumentOf(id_, docnote_src, clc_src) ==
    IF clc_src = None
    THEN DocnoteHtmlDocument(id_, docnote_src,
            ModuleSummaryTemplate_from_summary(docnote_src.module_summary,
                                               Collection).val)
    ELSE ClcHtmlDocument(id_, clc_src,
            ClcRichtextBlocknodeTemplate_from_document(clc_src,
                                                       Collection).val)

\* the number of sources the step's add call was given
Supplied == Cardinality({src \in {"docnote_src", "clc_src"} : op'[src] # None})

(* C9: add stores a document only when exactly one source is supplied:    *)
(* with both a docnote source and a markup source, or with neither, it     *)
(* raises a fatal error (the one-source TypeError when the identifier is   *)
(* new) and stores nothing; when it stores, exactly one source was given,  *)
(* and the stored document is appended under the identifier, wraps that    *)
(* source and holds the render tree the templatifier derives from it.      *)
C9_ExactlyOneSource ==
    [][IsAdd
        => /\ Supplied # 1
                => /\ IsException(outcome'.val)
                   /\ ~__contains__(documents, op'.id_)
                        => outcome'.val = OneSourceOnly
                   /\ CollectionUnchanged
           /\ outcome'.val = None
                => /\ Supplied = 1
                   /\ documents' =
                        Append(documents,
                               DocumentOf(op'.id_, op'.docnote_src,
                                          op'.clc_src))
                   /\ ~IsException(
                        get(documents', op'.id_, None)
                            .intermediate_representation)
           /\ documents' # documents => outcome'.val = None
      ]_vars

\* a collection that holds a document made of one source, and on which an
\* add with both sources, each of them fit to be added alone, just raised
C9_Witness ==
    /\ op.name = "add"
    /\ op.docnote_src = PlainModule
    /\ op.clc_src \notin FailingSources \cup {None}
    /\ ~__contains__(documents, op.id_)
    /\ outcome.val = OneSourceOnly
    /\ \E k \in DOMAIN documents :
            /\ documents[k].kind = "ClcHtmlDocument"
            /\ documents[k] =
                    DocumentOf(documents[k].id_, None, documents[k].src)

(* C10: insertion is all or nothing: when add raises, whatever raised      *)
(* (the templatifier on an embedding block without info, on a formatting   *)
(* it does not know or on a child of the wrong variant, the resolver, a    *)
(* plugin, or the preprocess call of a docstring), the collection is       *)
(* exactly as before the call, the identifier is present only if it was,   *)
(* and every stored document holds a render tree, never an exception or a  *)
(* missing one.                                                            *)
C10_AllOrNothing ==
    [][IsAdd
        => /\ IsException(outcome'.val)
                => /\ CollectionUnchanged
                   /\ __contains__(documents', op'.id_)
                        = __contains__(documents, op'.id_)
           /\ \A k \in DOMAIN documents' :
                /\ ~IsException(documents'[k].intermediate_representation)
                /\ documents'[k].intermediate_representation # None
      ]_vars

\* add raised out of the templatifier after plugins or the resolver were
\* called, on a collection that holds a document, for a new identifier
C10_Witness ==
    /\ op.name = "add"
    /\ IsException(outcome.val)
    /\ outcome.val \notin {DuplicateId, OneSourceOnly}
    /\ calls # <<>>
    /\ documents # <<>>
    /\ ~__contains__(documents, op.id_)

\* the step is a call of add that returned
AddSucceeded == IsAdd /\ outcome'.val = None

(* C11: the collection is write-once under every sequence of add,          *)
(* preprocess, get, membership, iteration and len calls: it starts empty,  *)
(* and every call keeps each stored identifier in place with the same      *)
(* document under it (get and indexing return it, membership holds), never *)
(* shrinks the collection, grows it by exactly one when the call is an add *)
(* that returned and by nothing otherwise, so that the size is the number  *)
(* of successful add calls; the new identifier goes last, no identifier is *)
(* stored twice, and iteration, the documents view and len return the      *)
(* stored identifiers once each in insertion order, and their number.      *)
C11_WriteOnce ==
    /\ __len__(documents) = 0
    /\ [][/\ \A k \in DOMAIN documents :
                /\ k \in DOMAIN documents'
                /\ documents'[k] = documents[k]
                /\ __contains__(documents', documents[k].id_)
                /\ get(documents', documents[k].id_, None) = documents[k]
                /\ __getitem__(documents', documents[k].id_)
                        = __getitem__(documents, documents[k].id_)
          /\ __len__(documents') >= __len__(documents)
          /\ __len__(documents')
                = __len__(documents) + (IF AddSucceeded THEN 1 ELSE 0)
          /\ AddSucceeded => Keys(documents') = Append(Keys(documents), op'.id_)
          /\ \A j, k \in DOMAIN documents' :
                documents'[j].id_ = documents'[k].id_ => j = k
          /\ op'.name = "iter" => outcome'.val = ListVal(Keys(documents))
          /\ op'.name = "len"
                => outcome'.val = IntVal(Cardinality({key \in Ids :
                                        __contains__(documents, key)}))
          /\ op'.name = "get"
                => outcome'.val = get(documents, op'.key, None)
          /\ op'.name = "contains"
                => outcome'.val = Bool(\E k \in DOMAIN documents :
                                        documents[k].id_ = op'.id_)
         ]_vars

\* iteration over a collection to which the identifiers were added against
\* their sorting order, the second after a docnote document
C11_Witness ==
    /\ op.name = "iter"
    /\ outcome.val = ListVal(<<"doc2", "doc1">>)
    /\ __len__(documents) = 2
    /\ documents[1].kind = "DocnoteHtmlDocument"
    /\ documents[2].kind = "ClcHtmlDocument"

----------------------------------------------------------------------------
(* Embedding plugins. *)

\* from_ast_node of an embedding block node returned a template
EmbeddingReturned ==
    /\ op.name = "ClcEmbeddingBlocknodeTemplate.from_ast_node"
    /\ outcome # Pending
    /\ ~IsException(outcome.val)

\* the plugins registered for the embedding type of the node, in order
RegisteredEmbeddings ==
    get_embeddings_plugins(op.plugin_manager, op.node.info.embed.value)

\* the calls of embeddings plugins the templatifier made, in order
EmbeddingsCalls == SelectSeq(calls, LAMBDA c : c.call = "embeddings_plugin")

\* what the k-th registered plugin returns for the node
InjectionOf(k) ==
    EmbeddingsPlugin(RegisteredEmbeddings[k], op.node,
                     op.node.info.embed.value).val

\* the first registered plugin that returns an injection, or 0
Winner ==
    IF \E k \in DOMAIN RegisteredEmbeddings : InjectionOf(k) # None
    THEN CHOOSE k \in DOMAIN RegisteredEmbeddings :
            /\ InjectionOf(k) # None
            /\ \A j \in 1..(k - 1) : InjectionOf(j) = None
    ELSE 0

PluginContainers ==
    SelectSeq(outcome.val.embedding_content,
              LAMBDA c : c.kind = "ClcEmbeddingPluginContentTemplate")
FallbackContainers ==
    SelectSeq(outcome.val.embedding_content,
              LAMBDA c : c.kind = "ClcEmbeddingFallbackContentTemplate")

(* C12: embedding plugins short-circuit: the plugins registered for the    *)
(* embedding-type string are called in registration order with the node    *)
(* and the type; the first to return an injection (a result that is not    *)
(* None) wins: its widgets are the whole embedding content, wrapped in one *)
(* plugin-content container that carries the winner's plugin name, no      *)
(* plugin registered after the winner is called, and there is no fallback  *)
(* container.                                                              *)
C12_FirstInjectionWins ==
    (EmbeddingReturned /\ Winner # 0)
        => /\ Len(EmbeddingsCalls) = Winner
           /\ \A i \in 1..Winner :
                /\ EmbeddingsCalls[i].plugin = RegisteredEmbeddings[i]
                /\ EmbeddingsCalls[i].node = op.node
                /\ EmbeddingsCalls[i].embedding_type
                        = op.node.info.embed.value
           /\ outcome.val.embedding_content =
                <<ClcEmbeddingPluginContentTemplate(
                    RegisteredEmbeddings[Winner],
                    IF EmbeddingsCalls[Winner].out.widgets = None THEN <<>>
                    ELSE EmbeddingsCalls[Winner].out.widgets.items)>>
           /\ FallbackContainers = <<>>

\* the first plugin returned no injection, the second one with widgets, and
\* the third, which has an injection to give, was not called
C12_Witness ==
    /\ EmbeddingReturned
    /\ RegisteredEmbeddings = <<"skip", "highlight", "tagger">>
    /\ InjectionOf(3) # None
    /\ Winner = 2
    /\ Len(EmbeddingsCalls) = 2
    /\ outcome.val.embedding_content[1].plugin_name = "highlight"
    /\ outcome.val.embedding_content[1].body # <<>>

\* the injection carries neither widgets nor attributes
IsEmptyInjection(injection) ==
    /\ injection # None
    /\ injection.widgets \in {None, ListVal(<<>>)}
    /\ injection.attrs \in {None, ListVal(<<>>)}

\* the first registered plugin whose injection carries something, or 0
NonEmptyWinner ==
    IF \E k \in DOMAIN RegisteredEmbeddings :
            InjectionOf(k) # None /\ ~IsEmptyInjection(InjectionOf(k))
    THEN CHOOSE k \in DOMAIN RegisteredEmbeddings :
            /\ InjectionOf(k) # None /\ ~IsEmptyInjection(InjectionOf(k))
            /\ \A j \in 1..(k - 1) :
                    InjectionOf(j) = None \/ IsEmptyInjection(InjectionOf(j))
    ELSE 0

\* the attributes the plugins of the node's type injected
NodePluginAttrs ==
    LET clc_calls == SelectSeq(calls, LAMBDA c : c.call = "clc_plugin"
                                                  /\ c.node = op.node)
    IN  InjectedAttrs([k \in DOMAIN clc_calls |-> clc_calls[k].out])

\* the container the fallback branch makes of the node's content
FallbackOf(node) ==
    ClcEmbeddingFallbackContentTemplate(
        IF node.content = None THEN <<>>
        ELSE <<PlaintextTemplate(node.content)>>)

(* C13 as claimed: for embedding plugins an injection that carries neither *)
(* widgets nor attributes counts as no injection: the loop goes on to the  *)
(* next registered plugin, the first plugin whose injection carries        *)
(* something wins, and without one the plaintext fallback container is     *)
(* used.                                                                   *)
C13_EmptyInjectionIsNoInjection ==
    EmbeddingReturned
        => IF NonEmptyWinner # 0
           THEN /\ Len(EmbeddingsCalls) = NonEmptyWinner
                /\ Len(PluginContainers) = 1
                /\ PluginContainers[1].plugin_name
                        = RegisteredEmbeddings[NonEmptyWinner]
           ELSE outcome.val.embedding_content = <<FallbackOf(op.node)>>

(* C13 amended: for embedding plugins an injection that carries neither    *)
(* widgets nor attributes is an injection all the same: when the first     *)
(* result that is not None is such an injection, its plugin wins, no       *)
(* plugin registered after it is called, the embedding content is one      *)
(* plugin-content container with that plugin's name and an empty body, it  *)
(* adds no attribute to those of the node's own plugins, and the plaintext *)
(* fallback container is not used.                                         *)
C13_EmptyInjectionWins ==
    (EmbeddingReturned /\ Winner # 0 /\ IsEmptyInjection(InjectionOf(Winner)))
        => /\ Len(EmbeddingsCalls) = Winner
           /\ EmbeddingsCalls[Winner].plugin = RegisteredEmbeddings[Winner]
           /\ outcome.val.embedding_content =
                <<ClcEmbeddingPluginContentTemplate(
                    RegisteredEmbeddings[Winner], <<>>)>>
           /\ outcome.val.plugin_attrs = NodePluginAttrs
           /\ FallbackOf(op.node)
                \notin {outcome.val.embedding_content[k] :
                            k \in DOMAIN outcome.val.embedding_content}

\* an injection without widgets and attributes came first, from a plugin
\* registered before one whose injection carries both, on a node that has
\* content and attributes of its own plugins
C13_Witness ==
    /\ EmbeddingReturned
    /\ RegisteredEmbeddings = <<"skip", "bare", "highlight">>
    /\ Winner = 2
    /\ NonEmptyWinner = 3
    /\ op.node.content # None
    /\ NodePluginAttrs # <<>>
    /\ outcome.val.embedding_content[1].plugin_name = "bare"

(* C14: every embedding block node that templatifies has exactly one       *)
(* embedding-content container: a plugin-content container if and only if  *)
(* some plugin registered for its embedding type returned a result, and    *)
(* otherwise, also when no plugin is registered for the type, a plaintext  *)
(* fallback container whose body is the raw embedding text, or empty when  *)
(* the node has no content.  The two kinds never appear together.          *)
C14_OneContentContainer ==
    EmbeddingReturned
        => /\ Len(outcome.val.embedding_content) = 1
           /\ Len(PluginContainers) + Len(FallbackContainers) = 1
           /\ Len(PluginContainers) = 1
                <=> \E c \in {EmbeddingsCalls[k] : k \in DOMAIN EmbeddingsCalls} :
                        c.out # None
           /\ Len(PluginContainers) = 1 <=> Winner # 0
           /\ Winner = 0
                => /\ Len(EmbeddingsCalls) = Len(RegisteredEmbeddings)
                   /\ FallbackContainers
                        = <<[kind |-> "ClcEmbeddingFallbackContentTemplate",
                             body |-> IF op.node.content = None THEN <<>>
                                      ELSE <<PlaintextTemplate(
                                                op.node.content)>>]>>

\* a node with content whose embedding type has no plugin, in a collection
\* that has plugins for another type: the fallback holds the raw text
C14_Witness ==
    /\ EmbeddingReturned
    /\ op.node.info.embed.value = "data"
    /\ op.plugin_manager.embeddings.code = <<"highlight", "tagger">>
    /\ RegisteredEmbeddings = <<>>
    /\ op.node.content = Str("x = 1")
    /\ FallbackContainers[1].body = <<PlaintextTemplate(Str("x = 1"))>>
    /\ PluginContainers = <<>>

----------------------------------------------------------------------------
(* Additive plugins. *)

\* one of the two _apply_plugins returned
PluginsApplied ==
    /\ op.name \in {"clc._apply_plugins", "docnotes._apply_plugins"}
    /\ outcome # Pending
    /\ ~IsException(outcome.val)

\* the plugins registered for the static type of the call, in order
RegisteredAdditive ==
    IF op.name = "clc._apply_plugins"
    THEN get_clc_plugins(op.plugin_manager, op.node_type)
    ELSE get_docnotes_plugins(op.plugin_manager, op.summary_type)

\* the node or summary the plugin was called with
Subject(c) == IF c.call = "clc_plugin" THEN c.node ELSE c.summary

\* what the injection contributes to the list of the field
Contribution(injection, fieldname) ==
    IF injection = None THEN <<>>
    ELSE IF injection[fieldname] = None THEN <<>>
    ELSE injection[fieldname].items

\* the contributions of the first n calls, one after the other
RECURSIVE Concatenated(_, _)
Concatenated(fieldname, n) ==
    IF n = 0 THEN <<>>
    ELSE Concatenated(fieldname, n - 1)
         \o Contribution(calls[n].out, fieldname)

(* C15: additive plugins (the plugins of markup nodes and of summaries)    *)
(* never short-circuit: every plugin registered for the static type of the *)
(* call is called exactly once, in registration order, with the node or    *)
(* the summary, and the attribute list and the widget list returned are    *)
(* the in-order concatenations of the attrs and of the widgets of all the  *)
(* injections that are not None; a None injection or a None attrs/widgets  *)
(* field contributes nothing and does not stop the plugins after it.       *)
C15_AdditivePlugins ==
    PluginsApplied
        => /\ Len(calls) = Len(RegisteredAdditive)
           /\ \A k \in DOMAIN calls :
                /\ calls[k].plugin = RegisteredAdditive[k]
                /\ Subject(calls[k])
                        = IF op.name = "clc._apply_plugins" THEN op.node
                          ELSE op.summary
           /\ outcome.val.plugin_attrs = Concatenated("attrs", Len(calls))
           /\ outcome.val.plugin_widgets = Concatenated("widgets", Len(calls))

\* three markup-node plugins: an injection of widgets alone, None, then an
\* injection of both, each called once and both injections applied
C15_Witness ==
    /\ PluginsApplied
    /\ op.name = "clc._apply_plugins"
    /\ RegisteredAdditive = <<"badge", "skip", "both">>
    /\ calls[2].out = None
    /\ Len(outcome.val.plugin_widgets) = 3
    /\ Len(outcome.val.plugin_attrs) = 2

----------------------------------------------------------------------------
(* Tag wrappers. *)

\* the derivation of the tag wrappers of an info record returned
WrappersDerived ==
    /\ op.name = "_derive_tag_wrappers"
    /\ outcome # Pending
    /\ ~IsException(outcome.val)

\* 1 when the field of the info record is set, else 0
Has(fieldname) == IF op.info[fieldname] # None THEN 1 ELSE 0

\* the tag of the wrapper a formatting kind stands for
FormattingTag(formatting) ==
    CASE formatting.name = "STRONG" -> "strong"
      [] formatting.name = "EMPHASIS" -> "em"
      [] formatting.name = "PRE" -> "code"
      [] formatting.name = "QUOTE" /\ formatting.kind = "BlockFormatting"
            -> "blockquote"

(* C16: for every block or inline info record the derived tag-wrapper list *)
(* holds at most three wrappers, in the fixed order semantic-role wrapper  *)
(* (its tag the raw value of the modifier, no attributes), link wrapper    *)
(* (tag a, with exactly one attribute, href), formatting wrapper; each is  *)
(* there if and only if its field of the info record is not None, so that  *)
(* a link target with strong formatting gives [a, strong].                 *)
C16_TagWrapperOrder ==
    WrappersDerived
        => LET wrappers == outcome.val.items
               link == Has("semantic_modifiers") + 1
               formatting == Has("semantic_modifiers") + Has("target") + 1
           IN  /\ Len(wrappers) <= 3
               /\ Len(wrappers) = Has("semantic_modifiers") + Has("target")
                                    + Has("formatting")
               /\ Has("semantic_modifiers") = 1
                    => wrappers[1] =
                        [kind |-> "NodeContentTagWrapper",
                         tag |-> op.info.semantic_modifiers.value,
                         attrs |-> <<>>]
               /\ Has("target") = 1
                    => /\ wrappers[link].tag = "a"
                       /\ Len(wrappers[link].attrs) = 1
                       /\ wrappers[link].attrs[1].key = "href"
               /\ Has("formatting") = 1
                    => wrappers[formatting].tag
                            = FormattingTag(op.info.formatting)
               /\ (Has("semantic_modifiers") = 0 /\ Has("target") = 1
                        /\ op.info.formatting
                                = Enum("InlineFormatting", "STRONG"))
                    => [k \in DOMAIN wrappers |-> wrappers[k].tag]
                            = <<"a", "strong">>

\* an inline info with the link target and the strong formatting of the
\* example, and nothing else: the wrappers are a, then strong
C16_Witness ==
    /\ WrappersDerived
    /\ op.info.kind = "InlineNodeInfo"
    /\ op.info.target = DataType("StrDataType", "http://e.example")
    /\ op.info.formatting = Enum("InlineFormatting", "STRONG")
    /\ op.info.semantic_modifiers = None
    /\ outcome.val.items =
            <<NodeContentTagWrapper("a",
                    <<HtmlAttr("href", "http://e.example")>>),
              NodeContentTagWrapper("strong", <<>>)>>

\* wrap_node_start and wrap_node_end returned
NodeWrapped == op.name = "wrap_node" /\ outcome # Pending

\* the tags opened ("<") or closed ("</") by the items, in order
TagsAfter(items, bracket) ==
    LET at == SelectSeq([i \in DOMAIN items |-> i],
                        LAMBDA i : items[i] = InjectedValue(bracket))
    IN  [k \in DOMAIN at |-> items[at[k] + 1].value]

\* the open and close tags of the items, in order
TagEvents(items) ==
    LET at == SelectSeq([i \in DOMAIN items |-> i],
                        LAMBDA i : items[i] \in {InjectedValue("<"),
                                                 InjectedValue("</")})
    IN  [k \in DOMAIN at |->
            [close |-> items[at[k]] = InjectedValue("</"),
             tag |-> items[at[k] + 1].value]]

\* every close tag closes the innermost tag still open, and none is left
RECURSIVE WellNested(_, _)
WellNested(events, open) ==
    IF events = <<>> THEN open = <<>>
    ELSE IF ~events[1].close
    THEN WellNested(Tail(events), <<events[1].tag>> \o open)
    ELSE /\ open # <<>>
         /\ open[1] = events[1].tag
         /\ WellNested(Tail(events), Tail(open))

\* the attributes among the items, in order
AttrsIn(items) == SelectSeq(items, LAMBDA item : item.kind = "HtmlAttr")

(* C17: for every wrapper list, wrap_node_start emits the open tags in     *)
(* list order and wrap_node_end the close tags in exactly the reverse      *)
(* order, one close tag for each open tag and of the same name, so that    *)
(* start tags + body + end tags is a properly nested bracket sequence; the *)
(* attributes of the wrappers appear in the open tags, in order, and none  *)
(* in the close tags.                                                      *)
C17_WrappersNest ==
    NodeWrapped
        => LET start == outcome.val.start
               end == outcome.val.end
               opened == TagsAfter(start, "<")
               closed == TagsAfter(end, "</")
               n == Len(op.wrappers)
           IN  /\ opened = [k \in 1..n |-> op.wrappers[k].tag]
               /\ closed = [k \in 1..n |-> op.wrappers[n + 1 - k].tag]
               /\ TagsAfter(start, "</") = <<>>
               /\ TagsAfter(end, "<") = <<>>
               /\ WellNested(TagEvents(start \o <<Str("body")>> \o end), <<>>)
               /\ AttrsIn(end) = <<>>
               /\ AttrsIn(start)
                    = Extend([k \in 1..n |-> ListVal(op.wrappers[k].attrs)])
               /\ Len(end) = 3 * n

\* three wrappers of different tags, two of them with attributes: the
\* close tags come in the reverse order of the wrappers
C17_Witness ==
    /\ NodeWrapped
    /\ [k \in DOMAIN op.wrappers |-> op.wrappers[k].tag]
            = <<"aside", "a", "code">>
    /\ TagsAfter(outcome.val.end, "</") = <<"code", "a", "aside">>
    /\ Len(AttrsIn(outcome.val.start)) = 3

----------------------------------------------------------------------------
(* The metadata normaliser. *)

\* _transform_spec_metadatas_block or _inline returned
SpecNormalized ==
    /\ op.name = "_transform_spec_metadatas"
    /\ outcome # Pending
    /\ ~IsException(outcome.val)

\* the fields the normaliser of the info's level passes over
SkippedFields ==
    IF op.value.kind = "BlockNodeInfo"
    THEN {"is_doc_metadata", "semantic_modifiers"}
    ELSE {"formatting", "sugared", "semantic_modifiers"}

\* the fields of the info that are enumerated, not passed over, and set
ContributingFields ==
    {fieldname \in {op.magic[k] : k \in DOMAIN op.magic} \ SkippedFields :
        op.value[fieldname] # None}

\* the attribute name the field is given
AttrName(fieldname) ==
    CASE fieldname = "embed" -> "embedding"
      [] fieldname = "style_modifiers" -> "class"
      [] fieldname = "alt_text" -> "alt-text"
      [] OTHER -> fieldname

\* the position of the field in the declaration order of the call
DeclaredAt(fieldname) ==
    CHOOSE k \in DOMAIN op.magic : op.magic[k] = fieldname

(* C18: the attribute list of the metadata normaliser, block-level and     *)
(* inline-level, is sorted ascending by attribute key whatever the order   *)
(* in which the enum declares the info fields, and holds exactly one       *)
(* attribute for each recognized field that is set and not skipped.        *)
C18_SortedAttributes ==
    SpecNormalized
        => LET attrs == outcome.val.items
           IN  /\ \A i, j \in DOMAIN attrs :
                    i < j => KeyRank(attrs[i].key) < KeyRank(attrs[j].key)
               /\ Len(attrs) = Cardinality(ContributingFields)
               /\ {attrs[k].key : k \in DOMAIN attrs}
                    = {AttrName(fieldname) : fieldname \in ContributingFields}

\* the info of the example, a target and a class, under an enum that
\* declares target before style_modifiers: class comes first
C18_Witness ==
    /\ SpecNormalized
    /\ ContributingFields = {"target", "style_modifiers"}
    /\ DeclaredAt("target") < DeclaredAt("style_modifiers")
    /\ outcome.val.items =
            <<HtmlAttr("class", "say &quot;x&quot;"),
              HtmlAttr("target", "a&amp;b")>>

\* the fields of the info that the enum of the call names and that are set
SetFields ==
    {fieldname \in {op.magic[k] : k \in DOMAIN op.magic}
                    \ {"is_doc_metadata"} :
        op.value[fieldname] # None}

\* the attributes returned, and their keys
SpecAttrs == {outcome.val.items[k] : k \in DOMAIN outcome.val.items}
SpecKeys == {attr.key : attr \in SpecAttrs}

\* the attribute an enum-valued field yields: its value is the lower-cased
\* name of the member
EnumAttr(fieldname) ==
    HtmlAttr(fieldname,
             CASE op.value[fieldname].name = "QUOTE" -> "quote"
               [] op.value[fieldname].name = "STRONG" -> "strong"
               [] op.value[fieldname].name = "PLAINTEXT" -> "plaintext")

(* C19 as claimed: the normaliser skips only the bookkeeping fields, the   *)
(* is-document-metadata flag and the semantic modifiers; every other       *)
(* recognized field of a block-level or inline-level info that is set      *)
(* yields an attribute, and a formatting kind (block or inline) or a       *)
(* fallback kind that is set yields an attribute whose value is the        *)
(* lower-cased enum name.                                                  *)
C19_OnlyBookkeepingSkipped ==
    SpecNormalized
        => /\ \A fieldname \in SetFields \ {"semantic_modifiers"} :
                AttrName(fieldname) \in SpecKeys
           /\ \A fieldname \in SetFields \cap {"formatting", "fallback"} :
                EnumAttr(fieldname) \in SpecAttrs

(* C19 amended: the block-level normaliser skips only the                  *)
(* is-document-metadata flag and the semantic modifiers, and the           *)
(* inline-level normaliser skips the formatting, the sugared flag and the  *)
(* semantic modifiers; every other recognized field that is set yields an  *)
(* attribute, a skipped field yields none; a block formatting kind or      *)
(* fallback kind that is set yields an attribute whose value is the        *)
(* lower-cased enum name, and an inline formatting kind yields no          *)
(* attribute.                                                              *)
C19_SkippedFields ==
    SpecNormalized
        => /\ op.value.kind = "BlockNodeInfo"
                => /\ \A fieldname \in SetFields \ {"semantic_modifiers"} :
                        AttrName(fieldname) \in SpecKeys
                   /\ \A fieldname \in SetFields
                                        \cap {"formatting", "fallback"} :
                        EnumAttr(fieldname) \in SpecAttrs
           /\ op.value.kind = "InlineNodeInfo"
                => /\ \A fieldname \in SetFields
                            \ {"formatting", "sugared", "semantic_modifiers"} :
                        AttrName(fieldname) \in SpecKeys
                   /\ SpecKeys \cap {"formatting", "sugared"} = {}
           /\ SpecKeys \cap {"semantic_modifiers", "semantic-modifiers",
                              "is_doc_metadata", "is-doc-metadata"} = {}
           /\ SpecKeys = {AttrName(fieldname) :
                            fieldname \in ContributingFields}

\* an inline info with a formatting, the sugared flag and a class: the
\* class is the one attribute
C19_Witness ==
    /\ SpecNormalized
    /\ op.value.kind = "InlineNodeInfo"
    /\ SetFields = {"formatting", "sugared", "style_modifiers"}
    /\ SpecKeys = {"class"}

\* a block info with a formatting, a fallback and semantic modifiers: the
\* two kinds are attributes, the modifiers are not
C19_BlockCase ==
    /\ SpecNormalized
    /\ op.value.kind = "BlockNodeInfo"
    /\ SetFields = {"formatting", "fallback", "semantic_modifiers"}
    /\ SpecAttrs = {HtmlAttr("fallback", "plaintext"),
                    HtmlAttr("formatting", "quote")}

\* the fields that contribute and whose value is a data type, not an enum
DataFields ==
    ContributingFields
        \ (IF op.value.kind = "BlockNodeInfo" THEN {"formatting", "fallback"}
           ELSE {})

\* the calls of the resolver made with the value
ResolverCalls(value) ==
    SelectSeq(calls, LAMBDA c : c.call = "target_resolver" /\ c.value = value)

(* C20: for each field of the info that is not an enum the normaliser      *)
(* chooses the attribute value by the data type of the field's value: for  *)
(* a mention, tag, variable or reference the link-target resolver is       *)
(* called exactly once with the value, and what it returns is the          *)
(* attribute value, not escaped; for every other scalar the resolver is    *)
(* not called and the attribute value is the value HTML-escaped, quotes    *)
(* included.  The attribute name is the field name with its underscores    *)
(* replaced by hyphens, except embed -> embedding and style_modifiers ->   *)
(* class.                                                                  *)
C20_ValueByDataType ==
    SpecNormalized
        => /\ \A fieldname \in DataFields :
                LET field_value == op.value[fieldname]
                    resolved == ResolverCalls(field_value)
                IN  IF field_value.kind \in {"MentionDataType", "TagDataType",
                                             "VariableDataType",
                                             "ReferenceDataType"}
                    THEN /\ Len(resolved) = 1
                         /\ HtmlAttr(AttrName(fieldname),
                                     resolved[1].out.value) \in SpecAttrs
                    ELSE /\ Len(resolved) = 0
                         /\ HtmlAttr(AttrName(fieldname),
                                     html_escape(field_value.value))
                                \in SpecAttrs
           /\ Len(calls)
                = Cardinality({fieldname \in DataFields :
                        op.value[fieldname].kind \in ReferenceDataTypes})

\* a block info with a tag as target, a mention in a field whose name
\* holds an underscore, a class with quotes and an embedding type: two
\* calls of the resolver, their outputs unescaped, the scalars escaped
C20_Witness ==
    /\ SpecNormalized
    /\ op.value.kind = "BlockNodeInfo"
    /\ Len(calls) = 2
    /\ outcome.val.items =
            <<HtmlAttr("alt-text", "#bob"),
              HtmlAttr("class", "say &quot;x&quot;"),
              HtmlAttr("embedding", "code"),
              HtmlAttr("target", "#a&b")>>

\* ClcMetadataTemplate.from_ast_node returned
MetadataTemplatified ==
    /\ op.name = "ClcMetadataTemplate.from_ast_node"
    /\ outcome # Pending
    /\ ~IsException(outcome.val)

\* the type tag of a data type
TypeTag(cls) ==
    CASE cls = "NullDataType" -> "null"
      [] cls = "StrDataType" -> "str"
      [] cls = "IntDataType" -> "int"
      [] cls = "TagDataType" -> "#"
      [] cls = "MentionDataType" -> "@"

(* C21: for the free-form metadata map of an info record the normaliser    *)
(* emits exactly one metadata entry per key, in the iteration order of the *)
(* map (not sorted), each with the type tag of the data type of its value; *)
(* a null value renders as the empty string with no extra attribute, a     *)
(* mention, tag, variable or reference carries one more attribute, href,   *)
(* holding what the resolver returned for it, and no other entry carries   *)
(* an href.                                                                *)
C21_MetadataEntries ==
    MetadataTemplatified
        => LET entries == outcome.val.items
               metadata == op.node.metadata
           IN  /\ Len(entries) = Len(metadata)
               /\ \A k \in DOMAIN metadata :
                    /\ entries[k].kind = "ClcMetadataTemplate"
                    /\ entries[k].key = metadata[k].key
                    /\ entries[k].type_ = TypeTag(metadata[k].value.kind)
                    /\ metadata[k].value.kind = "NullDataType"
                        => /\ entries[k].value = ""
                           /\ entries[k].extra_attrs = <<>>
                    /\ IF metadata[k].value.kind
                            \in {"MentionDataType", "TagDataType",
                                 "VariableDataType", "ReferenceDataType"}
                       THEN LET resolved == ResolverCalls(metadata[k].value)
                            IN  /\ Len(resolved) = 1
                                /\ entries[k].extra_attrs
                                    = <<HtmlAttr("href",
                                                 resolved[1].out.value)>>
                       ELSE entries[k].extra_attrs = <<>>

\* a map of three entries whose keys are not in sorting order: a null, a
\* tag and a string
C21_Witness ==
    /\ MetadataTemplatified
    /\ [k \in DOMAIN op.node.metadata |-> op.node.metadata[k].key]
            = <<"zeta", "see", "author">>
    /\ outcome.val.items =
            <<ClcMetadataTemplate("null", "zeta", "", <<>>),
              ClcMetadataTemplate("#", "see", "a&amp;b",
                                  <<HtmlAttr("href", "#a&b")>>),
              ClcMetadataTemplate("str", "author", "&lt;i&gt;", <<>>)>>

\* heading_factory returned
HeadingMade == op.name = "heading_factory" /\ outcome # Pending

Min(a, b) == IF a < b THEN a ELSE b
Max(a, b) == IF a > b THEN a ELSE b

\* the level of the heading tag h1 .. h6, or 0 for another tag
LevelOf(tag) ==
    IF \E k \in 1..6 : tag = "h" \o ToString(k)
    THEN CHOOSE k \in 1..6 : tag = "h" \o ToString(k)
    ELSE 0

(* C22: for every integer depth, heading_factory makes the tag h<k> with   *)
(* k = min(max(depth + 1, 1), 6): k is always in 1..6, the depths -1 and 0 *)
(* give h1, the depths 5 and 99 give h6, and for 0 <= depth <= 5 the level *)
(* is depth + 1; the body is the one given.                                *)
C22_HeadingClamp ==
    HeadingMade
        => /\ LevelOf(outcome.val.tag) = Min(Max(op.depth + 1, 1), 6)
           /\ LevelOf(outcome.val.tag) \in 1..6
           /\ op.depth \in {-1, 0} => outcome.val.tag = "h1"
           /\ op.depth \in {5, 99} => outcome.val.tag = "h6"
           /\ op.depth \in 0..5 => LevelOf(outcome.val.tag) = op.depth + 1
           /\ outcome.val.body = op.body

\* the heading of depth 99, clamped to h6
C22_Witness ==
    /\ HeadingMade
    /\ op.depth = 99
    /\ op.body # <<>>
    /\ outcome.val = HtmlGenericElement("h6", <<>>, op.body)

----------------------------------------------------------------------------
(* The Document wrapper. *)

\* from_document was given a Document and returned its template
DocumentTemplatified ==
    /\ op.name = "ClcRichtextBlocknodeTemplate.from_document"
    /\ op.node.kind = "Document"
    /\ outcome # Pending
    /\ ~IsException(outcome.val)

\* the template of the root of the document, templatified alone
RootAlone ==
    ClcRichtextBlocknodeTemplate_from_ast_node(
        op.node.root, CollectionWith(op.plugin_manager)).val

\* the document has metadata entries of its own
CarriesMetadata == op.node.info # None /\ op.node.info.metadata # <<>>

\* the entries derived from the document's own info record
OwnEntries ==
    ClcMetadataTemplate_from_ast_node(
        op.node.info, CollectionWith(op.plugin_manager)).val.items

(* C23: when a Document wrapper is templatified, the metadata entries of   *)
(* the render tree are those derived from the inner root node unless the   *)
(* Document itself carries metadata; only in that case are they replaced   *)
(* (not merged) by exactly the entries derived from the Document's own     *)
(* info record.  A Document that carries no metadata never erases the      *)
(* metadata entries of the root node.                                      *)
C23_DocumentMetadata ==
    DocumentTemplatified
        => /\ CarriesMetadata => outcome.val.metadata = OwnEntries
           /\ ~CarriesMetadata => outcome.val.metadata = RootAlone.metadata

----------------------------------------------------------------------------
(* Embedding blocks without an embedding type. *)

\* from_ast_node was given an embedding block whose info record, or whose
\* embedding type, is null, and has ended
UntypedEmbeddingTemplatified ==
    /\ op.name = "ClcEmbeddingBlocknodeTemplate.from_ast_node"
    /\ outcome # Pending
    /\ (op.node.info = None \/ op.node.info.embed = None)

(* C24: templatifying an embedding block whose info record is null, or     *)
(* whose embedding type is null, raises a TypeError: no template is        *)
(* returned for it (so no fallback container either), and no embeddings    *)
(* plugin is called.                                                       *)
C24_UntypedEmbeddingRaises ==
    UntypedEmbeddingTemplatified
        => /\ outcome.val = IF op.node.info = None THEN NoNodeinfo
                            ELSE NullEmbed
           /\ EmbeddingsCalls = <<>>

\* an embedding block with an info record and no embedding type, under a
\* manager that holds an injecting embeddings plugin and a clc plugin: the
\* clc plugin has run, the call has raised
C24_Witness ==
    /\ UntypedEmbeddingTemplatified
    /\ op.node.info # None
    /\ op.plugin_manager.embeddings.code = <<"highlight">>
    /\ op.plugin_manager.clc.EmbeddingBlockNode = <<"anchors">>
    /\ Len(calls) = 1
    /\ outcome.val = NullEmbed

----------------------------------------------------------------------------
(* The members of documentation summaries. *)

MembersSorted ==
    /\ op.name \in {"ModuleSummaryTemplate.sort_members",
                     "CallableSummaryTemplate.sort_signatures",
                     "SignatureSummaryTemplate.sort_params"}
    /\ outcome # Pending

\* the inclusion rule, as stated: the explicit flag decides when it is True
\* or False, otherwise document-worthy and not disowned
PassesInclusion(member) ==
    \/ member.metadata.extracted_inclusion = Bool(TRUE)
    \/ /\ member.metadata.extracted_inclusion = None
       /\ member.metadata.to_document
       /\ ~member.metadata.disowned

\* the key the members of the call are ordered by (a signature without
\* an ordering index counts as index 0)
SortKey(member) ==
    CASE op.name = "ModuleSummaryTemplate.sort_members"
            -> NameRank(member.name)
      [] op.name = "CallableSummaryTemplate.sort_signatures"
            -> IF member.ordering_index = None THEN 0
               ELSE member.ordering_index.n
      [] OTHER -> member.index

\* what the call shows when the set iterates in the given order
ShownFor(members) ==
    CASE op.name = "ModuleSummaryTemplate.sort_members"
            -> _included(sort_members_iterated(members))
      [] op.name = "CallableSummaryTemplate.sort_signatures"
            -> _included(sort_signatures(members))
      [] OTHER -> _included(sort_params(members))

\* the orders in which the same set may iterate
Reiterations(members) ==
    {[i \in DOMAIN members |-> members[f[i]]] :
        f \in {g \in [DOMAIN members -> DOMAIN members] :
                    \A i, j \in DOMAIN members : i # j => g[i] # g[j]}}

\* the members shown are the ones that pass the inclusion rule, each once,
\* ascending by key
C25_FilteredAscending ==
    MembersSorted
        => /\ Range(outcome.val.items)
                = {member \in Range(op.members) : PassesInclusion(member)}
           /\ \A i, j \in DOMAIN outcome.val.items :
                i < j => /\ outcome.val.items[i] # outcome.val.items[j]
                         /\ SortKey(outcome.val.items[i])
                                <= SortKey(outcome.val.items[j])

(* C25: the members a documentation summary shows are exactly the members  *)
(* that pass should_include (an explicit inclusion flag of True includes   *)
(* and of False excludes, whatever the other flags; otherwise included iff *)
(* document-worthy and not disowned), ascending by name for namespace      *)
(* members, by ordering index for signatures and by index for params; the  *)
(* order is fully determined by those keys and does not depend on the      *)
(* order in which the input set iterates.                                  *)
C25_MemberOrder ==
    /\ C25_FilteredAscending
    /\ MembersSorted
        => \A members \in Reiterations(op.members) :
                ShownFor(members) = outcome.val.items

----------------------------------------------------------------------------
(* Concurrent add calls. *)

\* both add calls have ended
BothEnded ==
    /\ op.name = "add || add"
    /\ \A t \in Threads : outcome.pc[t] = "done"

\* the document stored under the identifier
StoredUnder(id_) ==
    documents[CHOOSE k \in DOMAIN documents : documents[k].id_ = id_]

(* C26: the duplicate check of add and its insert are separate steps.      *)
(* When two add calls on the same identifier have both passed the check    *)
(* and neither has raised, both have returned None and the collection      *)
(* holds one document under the identifier, the one inserted last: the     *)
(* earlier one is overwritten.  Two concurrent add calls on distinct       *)
(* identifiers never raise the duplicate error, and each call that did not *)
(* raise has its document stored at the end.                               *)
C26_RacingAdds ==
    BothEnded
        => IF op.id_[1] = op.id_[2]
           THEN Len(outcome.stored) = 2
                  => /\ outcome.val[1] = None /\ outcome.val[2] = None
                     /\ __len__(documents) = 1
                     /\ StoredUnder(op.id_[1])
                            = outcome.document[outcome.stored[2]]
           ELSE \A t \in Threads :
                  /\ outcome.val[t] # DuplicateId
                  /\ outcome.val[t] = None
                        => /\ __contains__(documents, op.id_[t])
                           /\ StoredUnder(op.id_[t]) = outcome.document[t]

\* two calls on one identifier with different sources have both returned
\* None, and the document of the call that inserted first is gone
C26_Witness ==
    /\ BothEnded
    /\ op.id_[1] = op.id_[2]
    /\ outcome.val[1] = None /\ outcome.val[2] = None
    /\ outcome.stored = <<2, 1>>
    /\ outcome.document[1] # outcome.document[2]
    /\ documents = <<outcome.document[1]>>

----------------------------------------------------------------------------
(* Assignments to templates after their construction. *)

\* the assignments to fields of constructed templates, in order
Assignments == SelectSeq(calls, LAMBDA c : c.call = "__setattr__")

\* a templatifier function has returned or raised
Templatified ==
    /\ op.name \in {"ClcRichtextBlocknodeTemplate.from_document",
                     "ClcEmbeddingBlocknodeTemplate.from_ast_node",
                     "ClcMetadataTemplate.from_ast_node",
                     "clc._apply_plugins", "docnotes._apply_plugins"}
    /\ outcome # Pending

----------------------------------------------------------------------------
(* The number of transformer calls, checked under XformSpec. *)

\* the number of nodes of a tree that are not literal text
RECURSIVE NodeCount(_)
RECURSIVE NodeCountAt(_, _)
NodeCountAt(node, positions) ==
    IF positions = {} THEN 0
    ELSE LET k == CHOOSE k \in positions : TRUE
         IN  NodeCount(Child(node, k)) + NodeCountAt(node, positions \ {k})
NodeCount(node) ==
    IF node.kind \in {"str", "NoneType"} THEN 0
    ELSE 1 + NodeCountAt(node, ChildPositions(node))

(* C29: for a non-empty chain of K transformers none of whose results      *)
(* fails validation, apply_transformers returns after exactly N x K        *)
(* transformer calls, N the number of nodes of the input tree that are not *)
(* text: every transformer is called exactly once for every node of the    *)
(* original tree, literal text is never passed to a transformer and        *)
(* reaches the first transformer of its inline node unchanged, and the     *)
(* subtrees a transformer returns are not traversed again.                 *)
C29_CallCount ==
    (XformReturned /\ transformers # <<>>)
        => /\ Len(calls) = NodeCount(op.document) * Len(transformers)
           /\ \A i \in DOMAIN calls :
                /\ calls[i].orig = NodeAt(op.document, calls[i].path)
                /\ calls[i].arg.kind # "str"
                /\ calls[i].idx \in DOMAIN transformers
                /\ \A j \in DOMAIN calls :
                      (calls[j].path = calls[i].path
                        /\ calls[j].idx = calls[i].idx) => j = i
                /\ (calls[i].idx = 1 /\ calls[i].orig.kind = "RichtextInlineNode")
                      => \A k \in DOMAIN calls[i].orig.content :
                            calls[i].orig.content[k].kind = "str"
                                => calls[i].arg.content[k]
                                        = calls[i].orig.content[k]

\* a chain of two whose first transformer returned, for a paragraph, a new
\* paragraph around a list item the input does not hold: no call was made
\* for the list item
C29_Witness ==
    /\ XformReturned
    /\ Len(transformers) = 2
    /\ NodeCount(op.document) >= 4
    /\ Len(calls) = NodeCount(op.document) * 2
    /\ \E i \in DOMAIN calls :
          /\ calls[i].out = Paragraph(<<ListItem(None, <<>>)>>)
          /\ calls[i].out # calls[i].arg
          /\ \A j \in DOMAIN calls : calls[j].orig # ListItem(None, <<>>)

----------------------------------------------------------------------------
(* What the Document wrapper leaves alone. *)

\* the calls of clc plugins in a log
ClcPluginCalls(log) == SelectSeq(log, LAMBDA c : c.call = "clc_plugin")

(* C30: when a Document wrapper is templatified, at most the metadata      *)
(* entries come from the Document: the title, the body, the spec           *)
(* attributes, the tag wrappers, the plugin attributes and the plugin      *)
(* widgets of the template are exactly those of the root block             *)
(* templatified alone, with the same plugin calls, and the Document's own  *)
(* title is never rendered.                                                *)
C30_DocumentFrame ==
    DocumentTemplatified
        => /\ outcome.val.kind = RootAlone.kind
           /\ outcome.val.title = RootAlone.title
           /\ outcome.val.body = RootAlone.body
           /\ outcome.val.spectype_attrs = RootAlone.spectype_attrs
           /\ outcome.val.tag_wrappers = RootAlone.tag_wrappers
           /\ outcome.val.plugin_attrs = RootAlone.plugin_attrs
           /\ outcome.val.plugin_widgets = RootAlone.plugin_widgets
           /\ ClcPluginCalls(calls)
                = ClcPluginCalls(
                    ClcRichtextBlocknodeTemplate_from_ast_node(
                        op.node.root,
                        CollectionWith(op.plugin_manager)).calls)
           /\ op.node.root.title = None => outcome.val.title = <<>>

\* a Document with a title and metadata of its own around a root that has
\* neither a title nor the same metadata, but a body and plugins: the
\* template has no title, the root's body and the Document's metadata
C30_Witness ==
    /\ DocumentTemplatified
    /\ op.node.title # None
    /\ op.node.root.title = None
    /\ outcome.val.title = <<>>
    /\ outcome.val.body # <<>>
    /\ outcome.val.plugin_attrs # <<>>
    /\ outcome.val.tag_wrappers # <<>>
    /\ outcome.val.metadata # RootAlone.metadata

====
